---- MODULE Spec2Model ----
(***************************************************************************)
(* The compositor state bus of niri-bar (src/src/niri/mod.rs): the global  *)
(* NiriBus cache, the event-stream reader threads that feed it through     *)
(* handle_json_line, and the UI listeners woken through mpsc channels.     *)
(*                                                                         *)
(* Granularity.  Every Mutex of NiriBus is taken for one lock region at a  *)
(* time; a region that holds one lock is one atomic step here, and the     *)
(* nested region of the focus handlers (focused_window_id, then            *)
(* windows_by_id inside it) is one step at the point where the inner lock  *)
(* is held, because the pointer written under the outer lock is invisible  *)
(* until both are released.  A handler is the sequence of its regions      *)
(* (Program); other threads may run between two regions.                   *)
(*                                                                         *)
(* Option<T> is a sequence of length at most one: None is <<>>, Some(x) is *)
(* <<x>>.  A JSON field that is absent, null or of the wrong type decodes  *)
(* to None, as the and_then chains of the source do.                       *)
(***************************************************************************)
EXTENDS Integers, Sequences, FiniteSets, TLC

VARIABLES
    windows_by_id,                  \* NiriBus.windows_by_id : id -> WindowInfo
    focused_window_id,              \* NiriBus.focused_window_id : Option<i64>
    workspaces,                     \* NiriBus.workspaces : Vec<WorkspaceInfo>
    keyboard_layout_names,          \* NiriBus.keyboard_layout_names
    current_keyboard_layout_index,  \* NiriBus.current_keyboard_layout_index
    overview_is_open,               \* NiriBus.overview_is_open
    update_listeners,               \* number of Senders pushed by register_ui_listener
    pending,                        \* pending[l] : wake-ups queued in listener l's channel
    rpc,                            \* rpc[t] : position of thread t
    cur,                            \* cur[t] : the line thread t is handling
    ip,                             \* ip[t]  : next lock region of Program(cur[t])
    sock,                           \* sock[t]: lines written by the compositor, not yet read
    pre,                            \* history: the bus when the call being handled started
    pre_listeners,                  \* history: listeners registered when it started
    sent,                           \* history: wake-ups sent to each listener by that call
    notified,                       \* history: that call has run notify_ui
    focus_set_by,                   \* history: the region that wrote the Focus Pointer last
    focus_valid_at_set,             \* history: that id was a key of the window map then
    oracle,                         \* history: the bus after all arrived lines, in order
    expect,                         \* history: oracle as of the line being handled
    last_activated,                 \* history: the line of the call that returned last, when
                                    \*          it was a WorkspaceActivated; kept during the
                                    \*          next call when that call is for the same line
    alive,                          \* alive[l] : the Receiver of listener l's channel exists
    requests,                       \* command lines handed to send_request, with the outcome
    held,                           \* what the last windows_for_workspace call returned to
                                    \* its caller, with the map it was taken from (history)
    todo,                           \* todo[c] : the lock regions caller c has still to run
    got                             \* got[c] : mutexes of its current region that c holds

vars == <<windows_by_id, focused_window_id, workspaces, keyboard_layout_names,
          current_keyboard_layout_index, overview_is_open, update_listeners,
          pending, rpc, cur, ip, sock, pre, pre_listeners, sent, notified,
          focus_set_by, focus_valid_at_set, oracle, expect, last_activated, alive,
          requests, held, todo, got>>

busVars == <<windows_by_id, focused_window_id, workspaces, keyboard_layout_names,
             current_keyboard_layout_index, overview_is_open>>

-----------------------------------------------------------------------------
(* Bounds of the model *)

MaxBatch == 2       \* longest array of a WindowsChanged / WorkspacesChanged payload
MaxListeners == 1   \* UI listeners that are registered with a live Receiver
MaxDropped == 1     \* registered listeners whose Receiver has been dropped
MaxCmds == 1        \* commands handed to send_request
MaxCallers == 2     \* threads that call into the bus at the same time
MaxPending == 2     \* wake-ups a channel holds before the model stops feeding lines
MaxBuf == 2         \* lines in flight on a stream socket

-----------------------------------------------------------------------------
(* Option and small helpers *)

None == <<>>
Some(x) == <<x>>
UnwrapOr(o, d) == IF o = None THEN d ELSE o[1]

Threads == {1, 2}
Callers == 1..MaxCallers
ListenerIds == 1..(MaxListeners + MaxDropped)

RECURSIVE SeqsUpTo(_, _)
SeqsUpTo(S, n) ==
    IF n = 0 THEN {<<>>}
    ELSE LET shorter == SeqsUpTo(S, n - 1)
         IN  shorter \cup {Append(s, x) : s \in {q \in shorter : Len(q) = n - 1}, x \in S}

-----------------------------------------------------------------------------
(* Decoding of window objects (ingest_windows_array, ingest_window_object) *)

\* faulty variant: a pair field that does not decode is taken as [0.0, 0.0]
ParseLayoutPartial(lo) ==
    IF lo = None THEN None
    ELSE Some([pos_in_scrolling_layout |-> UnwrapOr(lo[1].pos_in_scrolling_layout, <<0, 0>>),
               tile_size               |-> UnwrapOr(lo[1].tile_size, <<0, 0>>),
               window_size             |-> UnwrapOr(lo[1].window_size, <<0, 0>>),
               window_offset_in_tile   |-> UnwrapOr(lo[1].window_offset_in_tile, <<0, 0>>)])

\* faulty variant: only pos_in_scrolling_layout is required
ParseLayoutFirstField(lo) ==
    IF lo = None \/ lo[1].pos_in_scrolling_layout = None THEN None
    ELSE Some([pos_in_scrolling_layout |-> lo[1].pos_in_scrolling_layout[1],
               tile_size               |-> UnwrapOr(lo[1].tile_size, <<0, 0>>),
               window_size             |-> UnwrapOr(lo[1].window_size, <<0, 0>>),
               window_offset_in_tile   |-> UnwrapOr(lo[1].window_offset_in_tile, <<0, 0>>)])

\* the four pair fields of a layout object: all present, or the layout is None
ParseLayout(lo) ==
    IF lo = None THEN None
    ELSE IF \/ lo[1].pos_in_scrolling_layout = None
            \/ lo[1].tile_size = None
            \/ lo[1].window_size = None
            \/ lo[1].window_offset_in_tile = None
         THEN None
         ELSE Some([pos_in_scrolling_layout |-> lo[1].pos_in_scrolling_layout[1],
                    tile_size               |-> lo[1].tile_size[1],
                    window_size             |-> lo[1].window_size[1],
                    window_offset_in_tile   |-> lo[1].window_offset_in_tile[1]])

\* a window object is ingested only when it has an integer id and a string title
ParseWindow(o) ==
    IF o.id = None \/ o.title = None THEN None
    ELSE Some([id           |-> o.id[1],
               title        |-> o.title[1],
               app_id       |-> UnwrapOr(o.app_id, ""),
               workspace_id |-> UnwrapOr(o.workspace_id, 0),
               is_focused   |-> UnwrapOr(o.is_focused, FALSE),
               is_floating  |-> UnwrapOr(o.is_floating, FALSE),
               layout       |-> ParseLayout(o.layout)])

\* faulty variant: the new record replaces the whole map
MapInsertAlone(map, id, w) == [x \in {id} |-> w]

\* faulty variant: a record that comes without a layout keeps the cached one
MapInsertKeepLayout(map, id, w) ==
    [x \in (DOMAIN map) \cup {id} |->
        IF x # id THEN map[x]
        ELSE IF id \in DOMAIN map /\ w.layout = None
             THEN [w EXCEPT !.layout = map[id].layout]
             ELSE w]

MapInsert(map, id, w) ==
    [x \in (DOMAIN map) \cup {id} |-> IF x = id THEN w ELSE map[x]]

MapRemove(map, id) ==
    [x \in (DOMAIN map) \ {id} |-> map[x]]

\* faulty variant: only the first entry of the batch reaches the map
IngestMapFirstOnly(map, arr) ==
    IF arr = <<>> THEN map
    ELSE LET w == ParseWindow(arr[1])
         IN  IF w = None THEN map ELSE MapInsert(map, w[1].id, w[1])

\* the loop of ingest_windows_array under the windows_by_id lock: insert, never clear
RECURSIVE IngestMap(_, _)
IngestMap(map, arr) ==
    IF arr = <<>> THEN map
    ELSE LET w == ParseWindow(arr[1])
         IN  IngestMap(IF w = None THEN map ELSE MapInsert(map, w[1].id, w[1]),
                       Tail(arr))

\* faulty variant: the focus flag is read before the entry is known to be ingested
RECURSIVE IngestFocusedUnchecked(_)
IngestFocusedUnchecked(arr) ==
    IF arr = <<>> THEN None
    ELSE LET o == arr[Len(arr)]
         IN  IF o.id # None /\ UnwrapOr(o.is_focused, FALSE)
             THEN Some(o.id[1])
             ELSE IngestFocusedUnchecked(SubSeq(arr, 1, Len(arr) - 1))

\* focused_id of ingest_windows_array: the last ingested entry whose flag is true
RECURSIVE IngestFocused(_)
IngestFocused(arr) ==
    IF arr = <<>> THEN None
    ELSE LET w == ParseWindow(arr[Len(arr)])
         IN  IF w # None /\ w[1].is_focused
             THEN Some(w[1].id)
             ELSE IngestFocused(SubSeq(arr, 1, Len(arr) - 1))

-----------------------------------------------------------------------------
(* WindowClosed, WindowLayoutsChanged, WindowFocusChanged *)

\* faulty variant: the pointer is left alone when its window is closed
KeepFocusWhenClosed(f, id) == f

\* the focused_window_id region of WindowClosed
ClearFocusIfClosed(f, id) == IF f = Some(id) THEN None ELSE f

\* faulty variant: an entry for an id that is not cached creates a window
RECURSIVE ApplyLayoutsUpsert(_, _)
ApplyLayoutsUpsert(map, changes) ==
    IF changes = <<>> THEN map
    ELSE LET c   == changes[1]
             lay == ParseLayout(c.layout)
             m2  == IF c.id = None \/ lay = None THEN map
                    ELSE IF c.id[1] \in DOMAIN map
                         THEN [map EXCEPT ![c.id[1]].layout = lay]
                         ELSE MapInsert(map, c.id[1],
                                        [id |-> c.id[1], title |-> "", app_id |-> "",
                                         workspace_id |-> 0, is_focused |-> FALSE,
                                         is_floating |-> FALSE, layout |-> lay])
         IN  ApplyLayoutsUpsert(m2, Tail(changes))

\* the loop of WindowLayoutsChanged: an entry [id, layout] updates the layout of
\* a cached window when all four pair fields decode; anything else is skipped
RECURSIVE ApplyLayouts(_, _)
ApplyLayouts(map, changes) ==
    IF changes = <<>> THEN map
    ELSE LET c   == changes[1]
             lay == ParseLayout(c.layout)
             m2  == IF c.id # None /\ lay # None /\ c.id[1] \in DOMAIN map
                    THEN [map EXCEPT ![c.id[1]].layout = lay]
                    ELSE map
         IN  ApplyLayouts(m2, Tail(changes))

\* faulty variant: the flag of the window focused before is left on
FocusFlagsNewOnly(map, old, new) ==
    IF new # None /\ new[1] \in DOMAIN map
    THEN [map EXCEPT ![new[1]].is_focused = TRUE] ELSE map

\* the windows_by_id part of the focus handlers: old flag off, then new flag on
FocusFlags(map, old, new) ==
    LET m1 == IF old # None /\ old[1] \in DOMAIN map
              THEN [map EXCEPT ![old[1]].is_focused = FALSE] ELSE map
    IN  IF new # None /\ new[1] \in DOMAIN m1
        THEN [m1 EXCEPT ![new[1]].is_focused = TRUE] ELSE m1

-----------------------------------------------------------------------------
(* WorkspaceActivated, WorkspacesChanged *)

\* faulty variant: the loop stops after the first workspace
ActivateFirstOnly(list, ws_id) ==
    [i \in 1..Len(list) |->
        IF i = 1 THEN [list[i] EXCEPT !.is_focused = (list[i].id = ws_id)] ELSE list[i]]

\* faulty variant: the flag of the named workspace is flipped
ActivateToggle(list, ws_id) ==
    [i \in 1..Len(list) |->
        [list[i] EXCEPT !.is_focused = (list[i].id = ws_id) /\ ~list[i].is_focused]]

\* faulty variant: the named workspace gets the flag and no other loses it
ActivateKeepOthers(list, ws_id) ==
    [i \in 1..Len(list) |->
        [list[i] EXCEPT !.is_focused = list[i].is_focused \/ (list[i].id = ws_id)]]

\* the loop of WorkspaceActivated under the workspaces lock
ActivateWorkspace(list, ws_id) ==
    [i \in 1..Len(list) |-> [list[i] EXCEPT !.is_focused = (list[i].id = ws_id)]]

\* the WorkspaceInfo values pushed by the WorkspacesChanged loop, in payload order
RECURSIVE ParseWorkspaces(_)
ParseWorkspaces(arr) ==
    IF arr = <<>> THEN <<>>
    ELSE LET o == arr[1]
         IN  (IF o.id # None /\ o.idx # None
              THEN <<[id         |-> o.id[1],
                      idx        |-> o.idx[1],
                      name       |-> o.name,
                      is_focused |-> UnwrapOr(o.is_focused, FALSE)]>>
              ELSE <<>>) \o ParseWorkspaces(Tail(arr))

\* faulty variant: the first object whose is_focused is true decides
RECURSIVE FocusedActiveFirst(_)
FocusedActiveFirst(arr) ==
    IF arr = <<>> THEN None
    ELSE IF UnwrapOr(arr[1].is_focused, FALSE)
         THEN Some(arr[1].active_window_id)
         ELSE FocusedActiveFirst(Tail(arr))

\* focused_active of the WorkspacesChanged loop: Some(active_window_id) of the
\* last object whose is_focused is true, None when no object has it
RECURSIVE FocusedActive(_)
FocusedActive(arr) ==
    IF arr = <<>> THEN None
    ELSE LET o == arr[Len(arr)]
         IN  IF UnwrapOr(o.is_focused, FALSE)
             THEN Some(o.active_window_id)
             ELSE FocusedActive(SubSeq(arr, 1, Len(arr) - 1))

\* faulty variant: the entry goes to the end whatever its idx
InsertAtEnd(sorted, w) == Append(sorted, w)

\* Vec::sort_by_key(|w| w.idx): a stable sort, as insertion from the left
RECURSIVE InsertByIdx(_, _)
InsertByIdx(sorted, w) ==
    IF sorted = <<>> THEN <<w>>
    ELSE IF sorted[Len(sorted)].idx <= w.idx THEN Append(sorted, w)
    ELSE Append(InsertByIdx(SubSeq(sorted, 1, Len(sorted) - 1), w), sorted[Len(sorted)])

RECURSIVE SortByIdxFrom(_, _)
SortByIdxFrom(sorted, list) ==
    IF list = <<>> THEN sorted
    ELSE SortByIdxFrom(InsertByIdx(sorted, list[1]), Tail(list))

\* faulty variant: the list is stored in payload order
KeepPayloadOrder(list) == list

SortByIdx(list) == SortByIdxFrom(<<>>, list)

-----------------------------------------------------------------------------
(* KeyboardLayoutsChanged *)

\* names: the string entries of the array, an empty list when it is not an array
RECURSIVE KbNames(_)
KbNames(names) ==
    IF names = <<>> THEN <<>>
    ELSE (IF names[1] = None THEN <<>> ELSE <<names[1][1]>>) \o KbNames(Tail(names))

-----------------------------------------------------------------------------
(* The bus as one value, and the lock regions of each handler *)

Bus == [windows_by_id                 |-> windows_by_id,
        focused_window_id             |-> focused_window_id,
        workspaces                    |-> workspaces,
        keyboard_layout_names         |-> keyboard_layout_names,
        current_keyboard_layout_index |-> current_keyboard_layout_index,
        overview_is_open              |-> overview_is_open]

\* NiriBus::new
InitBus == [windows_by_id                 |-> <<>>,
            focused_window_id             |-> None,
            workspaces                    |-> <<>>,
            keyboard_layout_names         |-> <<>>,
            current_keyboard_layout_index |-> None,
            overview_is_open              |-> FALSE]

NoEvent == [tag |-> "none"]

\* handle_json: the lock regions the handler of a decoded line runs, in order.
\* A JSON value without a known key and a known key whose payload does not
\* decode run none.
HandleJson(ev) ==
    CASE ev.tag = "WindowsChanged" ->
            IF ev.windows = None THEN <<>>
            ELSE <<"IngestWindows">>
                 \o (IF IngestFocused(ev.windows[1]) # None THEN <<"IngestFocus">> ELSE <<>>)
                 \o <<"Notify">>
      [] ev.tag = "WindowOpenedOrChanged" ->
            IF ev.window = None \/ ParseWindow(ev.window[1]) = None THEN <<>>
            ELSE <<"UpsertWindow", "Notify">>
      [] ev.tag = "WindowClosed" ->
            IF ev.id = None THEN <<>>
            ELSE <<"RemoveWindow", "ClearFocusIfClosed", "Notify">>
      [] ev.tag = "WindowLayoutsChanged" ->
            IF ev.changes = None THEN <<"Notify">>
            ELSE <<"ApplyLayouts", "Notify">>
      [] ev.tag = "WindowFocusChanged" -> <<"SetFocusAndFlags", "Notify">>
      [] ev.tag = "WorkspaceActiveWindowChanged" -> <<"SetFocusAndFlags", "Notify">>
      [] ev.tag = "WorkspaceActivated" ->
            IF ev.id = None THEN <<>> ELSE <<"ActivateWorkspace">>
      [] ev.tag = "WorkspacesChanged" ->
            IF ev.workspaces = None THEN <<>>
            ELSE <<"ReplaceWorkspaces">>
                 \o (IF FocusedActive(ev.workspaces[1]) # None
                     THEN <<"SeedFocus", "Notify">> ELSE <<>>)
      [] ev.tag = "KeyboardLayoutsChanged" ->
            IF ev.keyboard_layouts = None THEN <<>>
            ELSE <<"SetKeyboardNames", "SetKeyboardIndex">>
      [] ev.tag = "OverviewOpenedOrClosed" ->
            IF ev.is_open = None THEN <<>> ELSE <<"SetOverview">>
      [] OTHER -> <<>>

\* faulty variant: WindowClosed wakes the listeners before it clears the pointer
ProgramNotifyEarly(ev) ==
    IF ev.tag = "WindowClosed" /\ ev.id # None
    THEN <<"RemoveWindow", "Notify", "ClearFocusIfClosed">>
    ELSE HandleJson(ev)

\* faulty variant: WindowsChanged wakes the listeners once per item of the batch
ProgramNotifyPerItem(ev) ==
    IF ev.tag = "WindowsChanged" /\ ev.windows # None
    THEN <<"IngestWindows">>
         \o (IF IngestFocused(ev.windows[1]) # None THEN <<"IngestFocus">> ELSE <<>>)
         \o [i \in 1..Len(ev.windows[1]) |-> "Notify"]
    ELSE HandleJson(ev)

\* faulty variant: WorkspaceActivated with focused other than true does nothing
ProgramActivateIfFocused(ev) ==
    IF ev.tag = "not json" THEN <<>>
    ELSE IF ev.tag = "WorkspaceActivated" /\ ev.focused # Some(TRUE) THEN <<>>
    ELSE HandleJson(ev)

\* faulty variant: a line that is not JSON empties the window map
ProgramBadLineClears(ev) ==
    IF ev.tag = "not json" THEN <<"ClearWindows">> ELSE HandleJson(ev)

\* faulty variant: a JSON value without a known key wakes the listeners
ProgramUnknownNotifies(ev) ==
    IF ev.tag = "not json" THEN <<>>
    ELSE IF ev.tag = "ConfigLoaded" THEN <<"Notify">> ELSE HandleJson(ev)

\* handle_json_line: a line that parses as JSON goes to handle_json, any other
\* line is reported and runs nothing
Program(ev) == IF ev.tag = "not json" THEN <<>> ELSE HandleJson(ev)

\* faulty variant: reset leaves the overview flag alone
ResetRegionsNoOverview ==
    <<"ClearWindows", "ClearFocus", "ClearWorkspaces", "ClearKeyboardNames",
      "ClearKeyboardIndex">>

\* reset: the six lock regions, in order
ResetRegions ==
    <<"ClearWindows", "ClearFocus", "ClearWorkspaces", "ClearKeyboardNames",
      "ClearKeyboardIndex", "ClearOverview">>

\* faulty variant: WorkspaceActiveWindowChanged focuses by its workspace_id
NewFocusIdOfWorkspace(ev) ==
    IF ev.tag = "WindowFocusChanged" THEN ev.id ELSE ev.workspace_id

\* the id a focus event carries: "id" or "active_window_id"
NewFocusId(ev) ==
    IF ev.tag = "WindowFocusChanged" THEN ev.id ELSE ev.active_window_id

\* one lock region of the handler of ev, applied to the bus value b
ExecOp(op, ev, b) ==
    CASE op = "IngestWindows" ->
            [b EXCEPT !.windows_by_id = IngestMap(@, ev.windows[1])]
      [] op = "IngestFocus" ->
            [b EXCEPT !.focused_window_id = IngestFocused(ev.windows[1])]
      [] op = "UpsertWindow" ->
            [b EXCEPT !.windows_by_id =
                MapInsert(@, ParseWindow(ev.window[1])[1].id, ParseWindow(ev.window[1])[1])]
      [] op = "RemoveWindow" ->
            [b EXCEPT !.windows_by_id = MapRemove(@, ev.id[1])]
      [] op = "ClearFocusIfClosed" ->
            [b EXCEPT !.focused_window_id = ClearFocusIfClosed(@, ev.id[1])]
      [] op = "ApplyLayouts" ->
            [b EXCEPT !.windows_by_id = ApplyLayouts(@, ev.changes[1])]
      [] op = "SetFocusAndFlags" ->
            [b EXCEPT !.focused_window_id = NewFocusId(ev),
                      !.windows_by_id = FocusFlags(@, b.focused_window_id, NewFocusId(ev))]
      [] op = "ActivateWorkspace" ->
            [b EXCEPT !.workspaces = ActivateWorkspace(@, ev.id[1])]
      [] op = "ReplaceWorkspaces" ->
            [b EXCEPT !.workspaces = SortByIdx(ParseWorkspaces(ev.workspaces[1]))]
      [] op = "SeedFocus" ->
            [b EXCEPT !.focused_window_id = FocusedActive(ev.workspaces[1])[1]]
      [] op = "SetKeyboardNames" ->
            [b EXCEPT !.keyboard_layout_names =
                IF ev.keyboard_layouts[1].names = None THEN <<>>
                ELSE KbNames(ev.keyboard_layouts[1].names[1])]
      [] op = "SetKeyboardIndex" ->
            [b EXCEPT !.current_keyboard_layout_index = ev.keyboard_layouts[1].current_idx]
      [] op = "SetOverview" ->
            [b EXCEPT !.overview_is_open = ev.is_open[1]]
      [] op = "ClearWindows" -> [b EXCEPT !.windows_by_id = <<>>]
      [] op = "ClearFocus" -> [b EXCEPT !.focused_window_id = None]
      [] op = "ClearWorkspaces" -> [b EXCEPT !.workspaces = <<>>]
      [] op = "ClearKeyboardNames" -> [b EXCEPT !.keyboard_layout_names = <<>>]
      [] op = "ClearKeyboardIndex" -> [b EXCEPT !.current_keyboard_layout_index = None]
      [] op = "ClearOverview" -> [b EXCEPT !.overview_is_open = FALSE]
      [] OTHER -> b

\* the bus after a whole handle_json_line call that nothing interleaves with
RECURSIVE RunFrom(_, _, _)
RunFrom(prog, ev, b) ==
    IF prog = <<>> THEN b ELSE RunFrom(Tail(prog), ev, ExecOp(prog[1], ev, b))

ApplyEvent(ev, b) == RunFrom(Program(ev), ev, b)

-----------------------------------------------------------------------------
(* Lines the compositor sends: the inputs of the model *)

WinIds == {1, 2}
WsIds == {1, 2}

WinObj(id, title, focused) ==
    [id |-> id, title |-> title, app_id |-> Some("app"), workspace_id |-> Some(1),
     is_focused |-> focused, is_floating |-> Some(FALSE), layout |-> None]

WsObj(id, idx, focused, active) ==
    [id |-> id, idx |-> idx, name |-> None, is_focused |-> focused,
     active_window_id |-> active]

EvWindowsChanged(w)   == [tag |-> "WindowsChanged", windows |-> w]
EvWindowOpened(o)     == [tag |-> "WindowOpenedOrChanged", window |-> o]
EvWindowClosed(id)    == [tag |-> "WindowClosed", id |-> id]
EvLayoutsChanged(c)   == [tag |-> "WindowLayoutsChanged", changes |-> c]
EvFocusChanged(id)    == [tag |-> "WindowFocusChanged", id |-> id]
EvActiveWindow(ws, id) ==
    [tag |-> "WorkspaceActiveWindowChanged", workspace_id |-> ws, active_window_id |-> id]
EvWorkspaceActivated(id, f) == [tag |-> "WorkspaceActivated", id |-> id, focused |-> f]
EvWorkspacesChanged(w) == [tag |-> "WorkspacesChanged", workspaces |-> w]
EvKeyboard(kb)        == [tag |-> "KeyboardLayoutsChanged", keyboard_layouts |-> kb]
EvOverview(b)         == [tag |-> "OverviewOpenedOrClosed", is_open |-> b]
EvUnknown             == [tag |-> "ConfigLoaded"]
EvNotJson             == [tag |-> "not json"]

OptWinIds == {None} \cup {Some(i) : i \in WinIds}

\* well-formed window objects, and one that lacks its title
GoodWinObjs == {WinObj(Some(i), Some("a"), Some(f)) : i \in WinIds, f \in BOOLEAN}
BadWinObjs  == {WinObj(Some(2), None, Some(TRUE))}

FocusEvents ==
    {EvFocusChanged(i) : i \in OptWinIds}
    \cup {EvActiveWindow(Some(1), i) : i \in OptWinIds}

WindowEvents ==
    {EvWindowsChanged(Some(a)) : a \in SeqsUpTo(GoodWinObjs \cup BadWinObjs, MaxBatch)}
    \cup {EvWindowsChanged(None)}
    \cup {EvWindowOpened(Some(o)) : o \in GoodWinObjs \cup BadWinObjs}
    \cup {EvWindowClosed(i) : i \in OptWinIds}

\* workspaces whose payload order is the reverse of their idx order
WsObjs == {WsObj(Some(i), Some(3 - i), Some(f), None) : i \in WsIds, f \in BOOLEAN}

WorkspaceEvents ==
    {EvWorkspacesChanged(Some(a)) : a \in SeqsUpTo(WsObjs, MaxBatch)}
    \cup {EvWorkspacesChanged(None)}
    \cup {EvWorkspaceActivated(Some(i), Some(TRUE)) : i \in WsIds}

\* batches of a focused window 1 and an unfocused window 2
BatchEvents ==
    {EvWindowsChanged(Some(a)) :
        a \in SeqsUpTo({WinObj(Some(1), Some("a"), Some(TRUE)),
                        WinObj(Some(2), Some("a"), Some(FALSE))}, MaxBatch)}

\* workspace lists in reverse idx order with workspace 1 focused, and activations
ResetEvents ==
    {EvWorkspacesChanged(Some(a)) :
        a \in SeqsUpTo({WsObj(Some(i), Some(3 - i), Some(i = 1), None) : i \in WsIds},
                       MaxBatch)}
    \cup {EvWorkspaceActivated(Some(i), Some(TRUE)) : i \in WsIds}

\* workspace i with active window i, focused or not, and a focused workspace 1
\* with no active window
SeedObjs ==
    {WsObj(Some(1), Some(1), Some(TRUE), Some(1)),
     WsObj(Some(2), Some(2), Some(TRUE), Some(2)),
     WsObj(Some(2), Some(2), Some(FALSE), Some(2)),
     WsObj(Some(1), Some(1), Some(TRUE), None)}

SeedListEvents == {EvWorkspacesChanged(Some(a)) : a \in SeqsUpTo(SeedObjs, MaxBatch)}

\* single-window lines, focus lines with every workspace_id, and one line each
\* for the workspace list, the keyboard layouts and the overview
WinEvents ==
    {EvWindowOpened(Some(o)) : o \in GoodWinObjs \cup BadWinObjs}
    \cup {EvWindowOpened(Some(WinObj(Some(1), Some("b"), Some(FALSE))))}
    \cup {EvFocusChanged(i) : i \in OptWinIds}
    \cup {EvActiveWindow(ws, i) : ws \in {None, Some(1), Some(2)}, i \in OptWinIds}
    \cup {EvWorkspacesChanged(Some(<<WsObj(Some(1), Some(1), Some(FALSE), None)>>)),
          EvKeyboard(Some([names |-> Some(<<Some("us")>>), current_idx |-> Some(0)])),
          EvOverview(Some(TRUE))}

\* a layout object whose four pair fields are [p, p], and the same object
\* without one of them
LayoutObj(p) ==
    [pos_in_scrolling_layout |-> Some(<<p, p>>), tile_size |-> Some(<<p, p>>),
     window_size |-> Some(<<p, p>>), window_offset_in_tile |-> Some(<<p, p>>)]

LayoutFields ==
    {"pos_in_scrolling_layout", "tile_size", "window_size", "window_offset_in_tile"}

LayoutObjWithout(p, f) == [LayoutObj(p) EXCEPT ![f] = None]

\* an entry [id, layout] of the changes array
LayoutChange(id, lo) == [id |-> id, layout |-> lo]

\* complete entries for windows 1 and 2 and for the unknown id 3, entries for
\* window 1 that lack one pair field, an entry whose second item is no object
LayoutChanges ==
    {LayoutChange(Some(i), Some(LayoutObj(2))) : i \in WinIds \cup {3}}
    \cup {LayoutChange(Some(1), Some(LayoutObjWithout(2, f))) : f \in LayoutFields}
    \cup {LayoutChange(Some(2), None)}

\* windows opened with and without a layout, focus on window 1, layout batches
LayoutEvents ==
    {EvWindowOpened(Some([WinObj(Some(i), Some("a"), Some(FALSE)) EXCEPT !.layout = lo]))
        : i \in WinIds, lo \in {None, Some(LayoutObj(1))}}
    \cup {EvFocusChanged(Some(1))}
    \cup {EvLayoutsChanged(Some(c)) : c \in SeqsUpTo(LayoutChanges, MaxBatch)}
    \cup {EvLayoutsChanged(None)}

\* one workspace, focused or not, with each active window id
SeedEvents ==
    {EvWorkspacesChanged(Some(<<WsObj(Some(1), Some(1), Some(f), a)>>))
        : f \in BOOLEAN, a \in OptWinIds}

CoreEvents == WindowEvents \cup FocusEvents \cup SeedEvents

\* a line or two of every kind, about window 1 and workspace 1
NotifyEvents ==
    {EvWindowsChanged(Some(a)) : a \in SeqsUpTo({WinObj(Some(1), Some("a"), Some(TRUE))}, MaxBatch)}
    \cup {EvWindowOpened(Some(WinObj(Some(1), Some("a"), Some(TRUE)))),
          EvWindowClosed(Some(1)), EvFocusChanged(None), EvActiveWindow(Some(1), Some(1)),
          EvLayoutsChanged(None), EvLayoutsChanged(Some(<<>>)),
          EvWorkspaceActivated(Some(1), Some(TRUE)),
          EvWorkspacesChanged(Some(<<WsObj(Some(1), Some(1), Some(FALSE), None)>>)),
          EvWorkspacesChanged(Some(<<WsObj(Some(1), Some(1), Some(TRUE), Some(1))>>)),
          EvKeyboard(Some([names |-> Some(<<Some("us")>>), current_idx |-> Some(0)])),
          EvOverview(Some(TRUE)), EvUnknown, EvNotJson,
          EvWindowsChanged(None), EvWindowOpened(None), EvWindowClosed(None),
          EvWorkspaceActivated(None, Some(TRUE)), EvWorkspacesChanged(None),
          EvKeyboard(None), EvOverview(None)}

\* a workspace list that names the active window, batches of titled windows,
\* a retitled window 1, a close and focus lines
TitleEvents ==
    {EvWorkspacesChanged(Some(<<WsObj(Some(1), Some(1), Some(TRUE), Some(w))>>)) : w \in WinIds}
    \cup {EvWindowsChanged(Some(a)) :
            a \in SeqsUpTo({WinObj(Some(1), Some("Hello World"), Some(TRUE)),
                            WinObj(Some(2), Some("b"), Some(TRUE)),
                            WinObj(Some(2), Some("b"), Some(FALSE))}, MaxBatch)}
    \cup {EvWindowOpened(Some(WinObj(Some(1), Some("c"), Some(FALSE)))),
          EvWindowClosed(Some(1)), EvFocusChanged(Some(2)), EvFocusChanged(None)}

\* workspace lists with pairwise distinct ids and at most one focused entry
DistinctWsLists ==
    {a \in SeqsUpTo(WsObjs, MaxBatch) :
        /\ \A i \in 1..Len(a), j \in 1..Len(a) : i # j => a[i].id # a[j].id
        /\ Cardinality({i \in 1..Len(a) : a[i].is_focused = Some(TRUE)}) <= 1}

\* such lists, and activations of workspaces 1, 2 and the unknown 3 with
\* focused true and false
DistinctWsEvents ==
    {EvWorkspacesChanged(Some(a)) : a \in DistinctWsLists}
    \cup {EvWorkspaceActivated(Some(i), Some(f)) : i \in WsIds \cup {3}, f \in BOOLEAN}

\* lines that leave every field of the store different from a new store's, and
\* none that brings a field back
FillEvents ==
    {EvWindowOpened(Some(WinObj(Some(1), Some("a"), Some(TRUE)))),
     EvWorkspacesChanged(Some(<<WsObj(Some(1), Some(1), Some(TRUE), Some(1))>>)),
     EvKeyboard(Some([names |-> Some(<<Some("us")>>), current_idx |-> Some(0)])),
     EvOverview(Some(TRUE))}

\* the list of workspaces 1 and 2 with the first focused, and activations
CmdEvents ==
    {EvWorkspacesChanged(Some(<<WsObj(Some(1), Some(1), Some(TRUE), None),
                                WsObj(Some(2), Some(2), Some(FALSE), None)>>))}
    \cup {EvWorkspaceActivated(Some(i), Some(TRUE)) : i \in WsIds}

\* window 1 with no layout object, a complete one, and one that lacks a pair
\* field; window 2 complete, with only its id and title, and without its title
IngestObjs ==
    {[WinObj(Some(1), Some("a"), Some(TRUE)) EXCEPT !.layout = lo] :
        lo \in {None, Some(LayoutObj(1))} \cup {Some(LayoutObjWithout(1, f)) : f \in LayoutFields}}
    \cup {WinObj(Some(2), Some("b"), Some(TRUE)),
          [id |-> Some(2), title |-> Some("b"), app_id |-> None, workspace_id |-> None,
           is_focused |-> None, is_floating |-> None, layout |-> None],
          WinObj(Some(2), None, Some(TRUE))}

IngestEvents ==
    {EvWindowsChanged(Some(a)) : a \in SeqsUpTo(IngestObjs, MaxBatch)}
    \cup {EvWindowOpened(Some(o)) : o \in IngestObjs}

\* windows 1 and 2 on workspace 1 or 2, and the lines that close them
QueryEvents ==
    {EvWindowOpened(Some([WinObj(Some(i), Some("a"), Some(FALSE)) EXCEPT
                              !.workspace_id = Some(ws)])) : i \in WinIds, ws \in WsIds}
    \cup {EvWindowClosed(Some(i)) : i \in WinIds}

\* the workspace ids a caller asks for: the cached ones and one that does not exist
QueryIds == WsIds \cup {999}

\* a line that opens window 1 and a line that closes it
DeadEvents ==
    {EvWindowOpened(Some(WinObj(Some(1), Some("a"), Some(FALSE)))), EvWindowClosed(Some(1))}

\* lines about window 1 that do not commute
StreamEvents ==
    {EvWindowOpened(Some(WinObj(Some(1), Some("a"), Some(FALSE)))),
     EvWindowClosed(Some(1)), EvFocusChanged(Some(1)), EvFocusChanged(None)}

-----------------------------------------------------------------------------
(* Initial state: the lazily built global bus, no reader thread, no listener *)

Init ==
    /\ windows_by_id = InitBus.windows_by_id
    /\ focused_window_id = InitBus.focused_window_id
    /\ workspaces = InitBus.workspaces
    /\ keyboard_layout_names = InitBus.keyboard_layout_names
    /\ current_keyboard_layout_index = InitBus.current_keyboard_layout_index
    /\ overview_is_open = InitBus.overview_is_open
    /\ update_listeners = 0
    /\ pending = [l \in ListenerIds |-> 0]
    /\ rpc = [t \in Threads |-> "notstarted"]
    /\ cur = [t \in Threads |-> NoEvent]
    /\ ip = [t \in Threads |-> 1]
    /\ sock = [t \in Threads |-> <<>>]
    /\ pre = InitBus
    /\ pre_listeners = 0
    /\ sent = [l \in ListenerIds |-> 0]
    /\ notified = FALSE
    /\ focus_set_by = "new"
    /\ focus_valid_at_set = TRUE
    /\ oracle = InitBus
    /\ expect = InitBus
    /\ last_activated = NoEvent
    /\ alive = [l \in ListenerIds |-> TRUE]
    /\ requests = <<>>
    /\ held = None
    /\ todo = [c \in Callers |-> <<>>]
    /\ got = [c \in Callers |-> 0]

SetBus(b) ==
    /\ windows_by_id' = b.windows_by_id
    /\ focused_window_id' = b.focused_window_id
    /\ workspaces' = b.workspaces
    /\ keyboard_layout_names' = b.keyboard_layout_names
    /\ current_keyboard_layout_index' = b.current_keyboard_layout_index
    /\ overview_is_open' = b.overview_is_open

-----------------------------------------------------------------------------
(* The stream reader thread (NiriIpc::start_event_stream) *)

\* thread::spawn of start_event_stream; Application::run calls it on every activation
Start(t) ==
    /\ rpc[t] = "notstarted"
    /\ rpc' = [rpc EXCEPT ![t] = "connecting"]
    /\ UNCHANGED <<busVars, update_listeners, pending, cur, ip, sock, pre, pre_listeners,
                   sent, notified, focus_set_by, focus_valid_at_set, oracle, expect,
                   last_activated, alive, requests, held, todo, got>>

\* UnixStream::connect, the "EventStream" token and the flush succeed
ConnectOk(t) ==
    /\ rpc[t] = "connecting"
    /\ rpc' = [rpc EXCEPT ![t] = "running"]
    /\ UNCHANGED <<busVars, update_listeners, pending, cur, ip, sock, pre, pre_listeners,
                   sent, notified, focus_set_by, focus_valid_at_set, oracle, expect,
                   last_activated, alive, requests, held, todo, got>>

\* connect, write or flush fails: the error is printed and the thread ends
ConnectFail(t) ==
    /\ rpc[t] = "connecting"
    /\ rpc' = [rpc EXCEPT ![t] = "stopped"]
    /\ UNCHANGED <<busVars, update_listeners, pending, cur, ip, sock, pre, pre_listeners,
                   sent, notified, focus_set_by, focus_valid_at_set, oracle, expect,
                   last_activated, alive, requests, held, todo, got>>

\* faulty variant: after a read error the thread connects again
ReadErrorReconnect(t) ==
    /\ rpc[t] = "running"
    /\ rpc' = [rpc EXCEPT ![t] = "connecting"]
    /\ UNCHANGED <<busVars, update_listeners, pending, cur, ip, sock, pre, pre_listeners,
                   sent, notified, focus_set_by, focus_valid_at_set, oracle, expect,
                   last_activated, alive, requests, held, todo, got>>

\* faulty variant: a read error empties the bus
ReadErrorResets(t) ==
    /\ rpc[t] = "running"
    /\ rpc' = [rpc EXCEPT ![t] = "stopped"]
    /\ SetBus(InitBus)
    /\ UNCHANGED <<update_listeners, pending, cur, ip, sock, pre, pre_listeners,
                   sent, notified, focus_set_by, focus_valid_at_set, oracle, expect,
                   last_activated, alive, requests, held, todo, got>>

\* reader.lines() yields Err or ends: the loop is left
ReadError(t) ==
    /\ rpc[t] = "running"
    /\ rpc' = [rpc EXCEPT ![t] = "stopped"]
    /\ UNCHANGED <<busVars, update_listeners, pending, cur, ip, sock, pre, pre_listeners,
                   sent, notified, focus_set_by, focus_valid_at_set, oracle, expect,
                   last_activated, alive, requests, held, todo, got>>

\* the loop body takes a line and calls handle_json_line: the call starts
ReadLine(t, ev, exp) ==
    /\ rpc[t] = "running"
    /\ \A l \in ListenerIds : pending[l] < MaxPending
    /\ cur' = [cur EXCEPT ![t] = ev]
    /\ ip' = [ip EXCEPT ![t] = 1]
    /\ rpc' = [rpc EXCEPT ![t] = IF Program(ev) = <<>> THEN "returned" ELSE "handling"]
    /\ pre' = Bus
    /\ pre_listeners' = update_listeners
    /\ sent' = [l \in ListenerIds |-> 0]
    /\ notified' = FALSE
    /\ expect' = exp
    /\ last_activated' = IF ev = last_activated THEN ev ELSE NoEvent
    /\ UNCHANGED <<busVars, update_listeners, pending, focus_set_by, focus_valid_at_set,
                   alive, requests, held, todo, got>>

\* a line arrives on an idle stream and is read at once
Deliver(t, ev) ==
    /\ sock[t] = <<>>
    /\ ReadLine(t, ev, ApplyEvent(ev, oracle))
    /\ oracle' = ApplyEvent(ev, oracle)
    /\ UNCHANGED sock

\* the compositor writes a line; it waits in the socket buffer
Arrive(t, ev) ==
    /\ rpc[t] \in {"running", "handling", "returned"}
    /\ Len(sock[t]) < MaxBuf
    /\ sock' = [sock EXCEPT ![t] = Append(@, [ev |-> ev, expect |-> ApplyEvent(ev, oracle)])]
    /\ oracle' = ApplyEvent(ev, oracle)
    /\ UNCHANGED <<busVars, update_listeners, pending, rpc, cur, ip, pre, pre_listeners,
                   sent, notified, focus_set_by, focus_valid_at_set, expect,
                   last_activated, alive, requests, held, todo, got>>

\* faulty variant: the newest buffered line is taken
NewestLine(s) == Len(s)

\* BufReader::lines yields the buffered lines oldest first
NextLine(s) == 1

\* the loop body takes the next buffered line
Recv(t) ==
    /\ sock[t] # <<>>
    /\ LET k == NextLine(sock[t])
       IN  /\ ReadLine(t, sock[t][k].ev, sock[t][k].expect)
           /\ sock' = [sock EXCEPT ![t] =
                        SubSeq(@, 1, k - 1) \o SubSeq(@, k + 1, Len(@))]
    /\ UNCHANGED oracle

\* faulty variant: the loop of notify_ui stops at the first send that fails
ReceiversUntilDead(n, al) == {l \in 1..n : \A j \in 1..l : al[j]}

\* notify_ui: 'let _ = tx.send(())' for each of the n registered senders; a send
\* succeeds when the Receiver of its channel exists, a failed send is ignored
Receivers(n, al) == {l \in 1..n : al[l]}

\* who wrote the Focus Pointer in this region, if anyone
WritesFocus(op, ev, b) ==
    \/ op \in {"IngestFocus", "SetFocusAndFlags", "SeedFocus"}
    \/ op = "ClearFocusIfClosed" /\ ExecOp(op, ev, b).focused_window_id # b.focused_window_id

\* the running handler executes its next lock region
Step(t) ==
    /\ rpc[t] = "handling"
    /\ LET prog == Program(cur[t])
           op   == prog[ip[t]]
           b2   == ExecOp(op, cur[t], Bus)
       IN  /\ SetBus(b2)
           /\ IF op = "Notify"
              THEN /\ pending' = [l \in ListenerIds |->
                                    IF l \in Receivers(update_listeners, alive)
                                    THEN pending[l] + 1 ELSE pending[l]]
                   /\ sent' = [l \in ListenerIds |->
                                    IF l \in Receivers(update_listeners, alive)
                                    THEN sent[l] + 1 ELSE sent[l]]
                   /\ notified' = TRUE
              ELSE UNCHANGED <<pending, sent, notified>>
           /\ IF WritesFocus(op, cur[t], Bus)
              THEN /\ focus_set_by' = op
                   /\ focus_valid_at_set' =
                        (b2.focused_window_id = None
                         \/ b2.focused_window_id[1] \in DOMAIN windows_by_id)
              ELSE UNCHANGED <<focus_set_by, focus_valid_at_set>>
           /\ ip' = [ip EXCEPT ![t] = @ + 1]
           /\ rpc' = [rpc EXCEPT ![t] = IF ip[t] = Len(prog) THEN "returned" ELSE "handling"]
    /\ UNCHANGED <<update_listeners, cur, sock, pre, pre_listeners, oracle, expect,
                   last_activated, alive, requests, held, todo, got>>

\* handle_json_line has returned: the line is printed and the loop goes on.
\* The history of the call is dropped with it.
PrintLine(t) ==
    /\ rpc[t] = "returned"
    /\ rpc' = [rpc EXCEPT ![t] = "running"]
    /\ cur' = [cur EXCEPT ![t] = NoEvent]
    /\ ip' = [ip EXCEPT ![t] = 1]
    /\ pre' = InitBus
    /\ pre_listeners' = 0
    /\ sent' = [l \in ListenerIds |-> 0]
    /\ notified' = FALSE
    /\ expect' = InitBus
    /\ last_activated' = IF cur[t].tag = "WorkspaceActivated" THEN cur[t] ELSE NoEvent
    /\ UNCHANGED <<busVars, update_listeners, pending, sock, focus_set_by,
                   focus_valid_at_set, oracle, alive, requests, held, todo, got>>

-----------------------------------------------------------------------------
(* NiriBus::reset, called by a thread that holds the bus *)

\* thread t calls reset
CallReset(t) ==
    /\ rpc[t] = "notstarted"
    /\ rpc' = [rpc EXCEPT ![t] = "resetting"]
    /\ ip' = [ip EXCEPT ![t] = 1]
    /\ UNCHANGED <<busVars, update_listeners, pending, cur, sock, pre, pre_listeners,
                   sent, notified, focus_set_by, focus_valid_at_set, oracle, expect,
                   last_activated, alive, requests, held, todo, got>>

\* one lock region of reset
ResetRegion(t) ==
    /\ rpc[t] = "resetting"
    /\ LET op == ResetRegions[ip[t]]
       IN  /\ SetBus(ExecOp(op, NoEvent, Bus))
           /\ IF op = "ClearFocus"
              THEN focus_set_by' = op /\ focus_valid_at_set' = TRUE
              ELSE UNCHANGED <<focus_set_by, focus_valid_at_set>>
    /\ ip' = [ip EXCEPT ![t] = IF ip[t] = Len(ResetRegions) THEN 1 ELSE @ + 1]
    /\ rpc' = [rpc EXCEPT ![t] =
                IF ip[t] = Len(ResetRegions) THEN "notstarted" ELSE "resetting"]
    /\ UNCHANGED <<update_listeners, pending, cur, sock, pre, pre_listeners, sent,
                   notified, expect,
                   last_activated, alive, requests, held, todo, got>>

\* reset runs its next lock region; after the last one it returns
ResetStep(t) == ResetRegion(t) /\ UNCHANGED oracle

\* the same, with the reference store made fresh when reset returns: from then
\* on it is a new store fed with the lines that follow the reset
ResetStepFresh(t) ==
    /\ ResetRegion(t)
    /\ oracle' = IF ip[t] = Len(ResetRegions) THEN InitBus ELSE oracle

-----------------------------------------------------------------------------
(* The UI thread: ViewportModule::create_widget and its idle callback *)

\* register_ui_listener pushes the Sender of a new channel
Register ==
    /\ Cardinality(Receivers(update_listeners, alive)) < MaxListeners
    /\ update_listeners' = update_listeners + 1
    /\ UNCHANGED <<busVars, pending, rpc, cur, ip, sock, pre, pre_listeners, sent, notified,
                   focus_set_by, focus_valid_at_set, oracle, expect,
                   last_activated, alive, requests, held, todo, got>>

\* while rx.try_recv().is_ok() {}
Drain(l) ==
    /\ l <= update_listeners
    /\ pending[l] > 0
    /\ pending' = [pending EXCEPT ![l] = 0]
    /\ UNCHANGED <<busVars, update_listeners, rpc, cur, ip, sock, pre, pre_listeners, sent,
                   notified,
                   focus_set_by, focus_valid_at_set, oracle, expect,
                   last_activated, alive, requests, held, todo, got>>

\* the owner of a Receiver goes away: the channel is closed, what it held is
\* dropped, and the Sender stays in update_listeners
DropReceiver(l) ==
    /\ l <= update_listeners
    /\ alive[l]
    /\ update_listeners - Cardinality(Receivers(update_listeners, alive)) < MaxDropped
    /\ alive' = [alive EXCEPT ![l] = FALSE]
    /\ pending' = [pending EXCEPT ![l] = 0]
    /\ UNCHANGED <<busVars, update_listeners, rpc, cur, ip, sock, pre, pre_listeners, sent,
                   notified, focus_set_by, focus_valid_at_set, oracle, expect,
                   last_activated, requests, held, todo, got>>

-----------------------------------------------------------------------------
(* Query API *)

\* workspaces_snapshot: a copy of the list taken under its lock
workspaces_snapshot == workspaces

\* positions of a Vec, counted from 0 as the code counts them
At(list, i) == list[i + 1]

\* focused_workspace_index: position of the first workspace whose flag is set
focused_workspace_index(list) ==
    IF \E i \in 1..Len(list) : list[i].is_focused
    THEN Some((CHOOSE i \in 1..Len(list) :
                  /\ list[i].is_focused
                  /\ \A j \in 1..(i - 1) : ~list[j].is_focused) - 1)
    ELSE None

\* focused_workspace_id: id of the first workspace whose flag is set
focused_workspace_id(list) ==
    IF focused_workspace_index(list) = None THEN None
    ELSE Some(At(list, focused_workspace_index(list)[1]).id)

\* faulty variant: the last position stands in when no workspace is flagged
CurPosLastWhenUnfocused(list) == UnwrapOr(focused_workspace_index(list), Len(list) - 1)

\* 'cur' of next_prev_workspace_id / _idx: the first flagged position, 0 when
\* no workspace is flagged
CurPos(list) == UnwrapOr(focused_workspace_index(list), 0)

next_prev_workspace_id(list, forward, wrap) ==
    IF list = <<>> THEN None
    ELSE LET c == CurPos(list)
         IN  IF forward
             THEN IF c + 1 < Len(list) THEN Some(At(list, c + 1).id)
                  ELSE IF wrap THEN Some(At(list, 0).id) ELSE None
             ELSE IF c > 0 THEN Some(At(list, c - 1).id)
                  ELSE IF wrap THEN Some(At(list, Len(list) - 1).id) ELSE None

\* faulty variant: going backward from the first position wraps to the first
NextPrevIdxWrapToFirst(list, forward, wrap) ==
    IF list = <<>> THEN None
    ELSE LET c == CurPos(list)
         IN  IF forward
             THEN IF c + 1 < Len(list) THEN Some(At(list, c + 1).idx)
                  ELSE IF wrap THEN Some(At(list, 0).idx) ELSE None
             ELSE IF c > 0 THEN Some(At(list, c - 1).idx)
                  ELSE IF wrap THEN Some(At(list, 0).idx) ELSE None

next_prev_workspace_idx(list, forward, wrap) ==
    IF list = <<>> THEN None
    ELSE LET c == CurPos(list)
         IN  IF forward
             THEN IF c + 1 < Len(list) THEN Some(At(list, c + 1).idx)
                  ELSE IF wrap THEN Some(At(list, 0).idx) ELSE None
             ELSE IF c > 0 THEN Some(At(list, c - 1).idx)
                  ELSE IF wrap THEN Some(At(list, Len(list) - 1).idx) ELSE None

\* faulty variant: the title of a cached window whose own flag is set
TitleOfFlagged(b) ==
    IF \E id \in DOMAIN b.windows_by_id : b.windows_by_id[id].is_focused
    THEN b.windows_by_id[CHOOSE id \in DOMAIN b.windows_by_id :
                            b.windows_by_id[id].is_focused].title
    ELSE ""

\* current_title: the pointer, then the map; "" when either lookup gives nothing
current_title(b) ==
    IF b.focused_window_id # None /\ b.focused_window_id[1] \in DOMAIN b.windows_by_id
    THEN b.windows_by_id[b.focused_window_id[1]].title
    ELSE ""

\* keyboard_layouts_snapshot: the names under one lock, then the index under another
keyboard_layouts_snapshot(b) ==
    <<b.keyboard_layout_names, b.current_keyboard_layout_index>>

is_overview_open(b) == b.overview_is_open

focused_window_id_snapshot(b) == b.focused_window_id

\* faulty variant: the filter is left out and every cached window is returned
WindowsOfAnyWorkspace(b, workspace_id) ==
    {b.windows_by_id[id] : id \in DOMAIN b.windows_by_id}

\* windows_for_workspace: the cached windows of one workspace, in no order
windows_for_workspace(b, workspace_id) ==
    {b.windows_by_id[id] : id \in {x \in DOMAIN b.windows_by_id :
                                      b.windows_by_id[x].workspace_id = workspace_id}}

\* what the query accessors return on bus b
Accessors(b) ==
    [workspaces_snapshot        |-> b.workspaces,
     focused_workspace_index    |-> focused_workspace_index(b.workspaces),
     focused_workspace_id       |-> focused_workspace_id(b.workspaces),
     next_prev_workspace_id     |-> [f \in BOOLEAN, w \in BOOLEAN |->
                                        next_prev_workspace_id(b.workspaces, f, w)],
     next_prev_workspace_idx    |-> [f \in BOOLEAN, w \in BOOLEAN |->
                                        next_prev_workspace_idx(b.workspaces, f, w)],
     keyboard_layouts_snapshot  |-> keyboard_layouts_snapshot(b),
     is_overview_open           |-> is_overview_open(b),
     focused_window_id_snapshot |-> focused_window_id_snapshot(b),
     windows_for_workspace      |-> [ws \in WsIds \cup {0} |-> windows_for_workspace(b, ws)],
     current_title              |-> current_title(b)]

\* a module calls windows_for_workspace and keeps the Vec it gets
CallWindowsForWorkspace(workspace_id) ==
    /\ held' = Some([workspace_id |-> workspace_id,
                     windows      |-> windows_for_workspace(Bus, workspace_id),
                     from         |-> windows_by_id])
    /\ UNCHANGED <<busVars, update_listeners, pending, rpc, cur, ip, sock, pre,
                   pre_listeners, sent, notified, focus_set_by, focus_valid_at_set,
                   oracle, expect, last_activated, alive, requests, todo, got>>

-----------------------------------------------------------------------------
(* The command path: focus_workspace_index, send_json_request, send_request *)

\* the line focus_workspace_index formats
FocusWorkspacePayload(idx) ==
    [Action |-> [FocusWorkspace |-> [reference |-> [Index |-> idx]]]]

\* faulty variant: the command also marks the workspace with that idx focused
SendRequestOptimistic(line, ok, wr) ==
    /\ Len(requests) < MaxCmds
    /\ requests' = Append(requests, [line |-> line, connected |-> ok,
                                     written |-> ok /\ wr, reported |-> "Ok"])
    /\ workspaces' = [i \in 1..Len(workspaces) |->
                        [workspaces[i] EXCEPT !.is_focused =
                            (workspaces[i].idx = line.Action.FocusWorkspace.reference.Index)]]
    /\ UNCHANGED <<windows_by_id, focused_window_id, keyboard_layout_names,
                   current_keyboard_layout_index, overview_is_open,
                   update_listeners, pending, rpc, cur, ip, sock, pre, pre_listeners,
                   sent, notified, focus_set_by, focus_valid_at_set, oracle, expect,
                   last_activated, alive, held, todo, got>>

\* send_request: a thread is spawned that connects to the socket (ok) and, when
\* the connect succeeds, writes the line and flushes (wr), discarding both
\* results; the caller gets Ok(()) at once
send_request(line, ok, wr) ==
    /\ Len(requests) < MaxCmds
    /\ requests' = Append(requests, [line |-> line, connected |-> ok,
                                     written |-> ok /\ wr, reported |-> "Ok"])
    /\ UNCHANGED <<busVars, update_listeners, pending, rpc, cur, ip, sock, pre,
                   pre_listeners, sent, notified, focus_set_by, focus_valid_at_set,
                   oracle, expect, last_activated, alive, held, todo, got>>

\* send_json_request: NiriIpc::new()? fails when NIRI_SOCKET is not set (env
\* false) and the caller gets the Err; otherwise the result of send_request
send_json_request(line, env, ok, wr) ==
    IF env THEN send_request(line, ok, wr)
    ELSE /\ Len(requests) < MaxCmds
         /\ requests' = Append(requests, [line |-> line, connected |-> FALSE,
                                          written |-> FALSE, reported |-> "Err"])
         /\ UNCHANGED <<busVars, update_listeners, pending, rpc, cur, ip, sock, pre,
                        pre_listeners, sent, notified, focus_set_by, focus_valid_at_set,
                        oracle, expect, last_activated, alive, held, todo, got>>

focus_workspace_index(idx, env, ok, wr) ==
    send_json_request(FocusWorkspacePayload(idx), env, ok, wr)

\* the scroll handler of the workspaces module: the neighbour's idx, then the command
Scroll(direction_up, scroll_wrap) ==
    LET r == next_prev_workspace_idx(workspaces, direction_up, scroll_wrap)
    IN  /\ r # None
        /\ \E env \in BOOLEAN, ok \in BOOLEAN, wr \in BOOLEAN :
                focus_workspace_index(r[1], env, ok, wr)

-----------------------------------------------------------------------------
(* The mutexes of the bus: which ones each lock region takes, and in what order *)

\* the one mutex of a region that takes a single lock
SingleLock(op) ==
    CASE op \in {"IngestWindows", "UpsertWindow", "RemoveWindow", "ApplyLayouts",
                 "ClearWindows"} -> "windows_by_id"
      [] op \in {"IngestFocus", "ClearFocusIfClosed", "SeedFocus", "ClearFocus"}
            -> "focused_window_id"
      [] op \in {"ActivateWorkspace", "ReplaceWorkspaces", "ClearWorkspaces"} -> "workspaces"
      [] op \in {"SetKeyboardNames", "ClearKeyboardNames"} -> "keyboard_layout_names"
      [] op \in {"SetKeyboardIndex", "ClearKeyboardIndex"} -> "current_keyboard_layout_index"
      [] op \in {"SetOverview", "ClearOverview"} -> "overview_is_open"
      [] op = "Notify" -> "update_listeners"

\* faulty variant: WindowClosed keeps the window map locked while it takes the
\* focus-pointer lock
RegionLocksCloseNested(op) ==
    IF op = "SetFocusAndFlags" THEN <<"focused_window_id", "windows_by_id">>
    ELSE IF op = "ClearFocusIfClosed" THEN <<"windows_by_id", "focused_window_id">>
    ELSE <<SingleLock(op)>>

\* the mutexes a lock region acquires, outermost first: the focus handlers take
\* the window map inside the focus pointer, every other region takes one lock
RegionLocks(op) ==
    IF op = "SetFocusAndFlags" THEN <<"focused_window_id", "windows_by_id">>
    ELSE <<SingleLock(op)>>

\* the regions of a handle_json_line call, each as the mutexes it acquires
HandlerLocks(ev) == [i \in 1..Len(Program(ev)) |-> RegionLocks(Program(ev)[i])]

\* the regions of reset
ResetLocks == [i \in 1..Len(ResetRegions) |-> RegionLocks(ResetRegions[i])]

\* the regions of the query accessors and of register_ui_listener
QueryLocks(q) ==
    CASE q = "current_title" -> <<<<"focused_window_id">>, <<"windows_by_id">>>>
      [] q \in {"workspaces_snapshot", "focused_workspace_index", "focused_workspace_id",
                "next_prev_workspace_id", "next_prev_workspace_idx"} -> <<<<"workspaces">>>>
      [] q = "keyboard_layouts_snapshot"
            -> <<<<"keyboard_layout_names">>, <<"current_keyboard_layout_index">>>>
      [] q = "is_overview_open" -> <<<<"overview_is_open">>>>
      [] q = "focused_window_id_snapshot" -> <<<<"focused_window_id">>>>
      [] q = "windows_for_workspace" -> <<<<"windows_by_id">>>>
      [] q = "register_ui_listener" -> <<<<"update_listeners">>>>

Queries ==
    {"current_title", "workspaces_snapshot", "focused_workspace_index",
     "focused_workspace_id", "next_prev_workspace_id", "next_prev_workspace_idx",
     "keyboard_layouts_snapshot", "is_overview_open", "focused_window_id_snapshot",
     "windows_for_workspace", "register_ui_listener"}

\* the calls a thread can make, as lock regions; a call that takes no lock is left out
CallLocks ==
    ({HandlerLocks(ev) : ev \in NotifyEvents} \cup {QueryLocks(q) : q \in Queries}
        \cup {ResetLocks}) \ {<<>>}

\* the mutexes caller c holds
HeldBy(c) == IF todo[c] = <<>> THEN {} ELSE {todo[c][1][i] : i \in 1..got[c]}

\* caller c enters a call
BeginCall(c, regions) ==
    /\ todo[c] = <<>>
    /\ todo' = [todo EXCEPT ![c] = regions]
    /\ got' = [got EXCEPT ![c] = 0]
    /\ UNCHANGED <<busVars, update_listeners, pending, rpc, cur, ip, sock, pre,
                   pre_listeners, sent, notified, focus_set_by, focus_valid_at_set,
                   oracle, expect, last_activated, alive, requests, held>>

\* Mutex::lock: c gets the next mutex of its region when no thread holds it
Acquire(c) ==
    /\ todo[c] # <<>>
    /\ got[c] < Len(todo[c][1])
    /\ \A d \in Callers : todo[c][1][got[c] + 1] \notin HeldBy(d)
    /\ got' = [got EXCEPT ![c] = @ + 1]
    /\ UNCHANGED <<busVars, update_listeners, pending, rpc, cur, ip, sock, pre,
                   pre_listeners, sent, notified, focus_set_by, focus_valid_at_set,
                   oracle, expect, last_activated, alive, requests, held, todo>>

\* the region runs with its locks held and its guards are dropped
Release(c) ==
    /\ todo[c] # <<>>
    /\ got[c] = Len(todo[c][1])
    /\ todo' = [todo EXCEPT ![c] = Tail(@)]
    /\ got' = [got EXCEPT ![c] = 0]
    /\ UNCHANGED <<busVars, update_listeners, pending, rpc, cur, ip, sock, pre,
                   pre_listeners, sent, notified, focus_set_by, focus_valid_at_set,
                   oracle, expect, last_activated, alive, requests, held>>

-----------------------------------------------------------------------------
(* Specifications *)

ReaderNext(Rs, Evs) ==
    \E t \in Rs :
        \/ Start(t)
        \/ ConnectOk(t)
        \/ ConnectFail(t)
        \/ ReadError(t)
        \/ \E ev \in Evs : Deliver(t, ev)
        \/ Step(t)
        \/ PrintLine(t)

UiNext ==
    \/ Register
    \/ \E l \in ListenerIds : Drain(l)

\* one activation, no listener (as under cfg!(test)): windows, focus, seeding
Next == ReaderNext({1}, CoreEvents)
Spec == Init /\ [][Next]_vars

\* one activation, windows and workspaces
NextWs == ReaderNext({1}, BatchEvents \cup WorkspaceEvents)
SpecWs == Init /\ [][NextWs]_vars

\* one activation and the viewport listeners
NextNotify == ReaderNext({1}, NotifyEvents) \/ UiNext
SpecNotify == Init /\ [][NextNotify]_vars

\* the application is activated twice
NextActivate == ReaderNext({1, 2}, StreamEvents)
SpecActivate == Init /\ [][NextActivate]_vars

\* one activation, lines buffered in the socket
NextStream ==
    \E t \in {1} :
        \/ Start(t)
        \/ ConnectOk(t)
        \/ ConnectFail(t)
        \/ ReadError(t)
        \/ \E ev \in StreamEvents : Arrive(t, ev)
        \/ Recv(t)
        \/ Step(t)
        \/ PrintLine(t)
SpecStream == Init /\ [][NextStream]_vars

\* one activation feeding workspace lines while another thread calls reset
NextReset ==
    \/ ReaderNext({1}, ResetEvents)
    \/ \E t \in {2} : CallReset(t) \/ ResetStep(t)
SpecReset == Init /\ [][NextReset]_vars

\* one activation, listeners that register and listeners that go away
NextDead ==
    \/ ReaderNext({1}, DeadEvents)
    \/ UiNext
    \/ \E l \in ListenerIds : DropReceiver(l)
SpecDead == Init /\ [][NextDead]_vars

\* lines fed to the bus and reset called between two of them, as a test does,
\* with a registered listener
NextResetSeq ==
    \/ rpc[2] # "resetting" /\ ReaderNext({1}, FillEvents)
    \/ UiNext
    \/ rpc[1] \notin {"handling", "returned"} /\ CallReset(2)
    \/ ResetStepFresh(2)
SpecResetSeq == Init /\ [][NextResetSeq]_vars

\* one activation, a listener, and scrolling over the workspaces
NextCmd ==
    \/ ReaderNext({1}, CmdEvents)
    \/ UiNext
    \/ \E f \in BOOLEAN, w \in BOOLEAN : Scroll(f, w)
SpecCmd == Init /\ [][NextCmd]_vars

\* one activation, window objects with missing sub-fields
NextIngest == ReaderNext({1}, IngestEvents)
SpecIngest == Init /\ [][NextIngest]_vars

\* one activation, and a module that asks for the windows of a workspace
NextQuery ==
    \/ ReaderNext({1}, QueryEvents)
    \/ \E ws \in QueryIds : CallWindowsForWorkspace(ws)
SpecQuery == Init /\ [][NextQuery]_vars

\* threads that call into the bus at the same time, seen at the level of the
\* mutexes; a thread that can take its next lock infinitely often gets it
NextLocks ==
    \E c \in Callers :
        \/ \E regions \in CallLocks : BeginCall(c, regions)
        \/ Acquire(c)
        \/ Release(c)
SpecLocks ==
    /\ Init
    /\ [][NextLocks]_vars
    /\ \A c \in Callers : SF_vars(Acquire(c)) /\ WF_vars(Release(c))

\* one activation, workspace lists with distinct ids and at most one focused
NextDistinct == ReaderNext({1}, DistinctWsEvents)
SpecDistinct == Init /\ [][NextDistinct]_vars

\* one activation, windows with different titles
NextTitle == ReaderNext({1}, TitleEvents)
SpecTitle == Init /\ [][NextTitle]_vars

\* one activation, workspace lists that seed the Focus Pointer
NextSeed == ReaderNext({1}, SeedListEvents)
SpecSeed == Init /\ [][NextSeed]_vars

\* one activation, single-window and focus lines
NextWin == ReaderNext({1}, WinEvents)
SpecWin == Init /\ [][NextWin]_vars

\* one activation, windows and layout batches
NextLayout == ReaderNext({1}, LayoutEvents)
SpecLayout == Init /\ [][NextLayout]_vars

-----------------------------------------------------------------------------
(* Properties *)

\* handle_json_line called by thread t has returned and the loop has not gone on
Returned(t) == rpc[t] = "returned"

\* thread t is inside handle_json_line or has just returned from it
InCall(t) == rpc[t] \in {"handling", "returned"}

\* C1 (as stated): after every call the Focus Pointer is none or holds an id that
\* was a key of the window map when the pointer was set, whichever event set it.
C1_FocusValidWhenSet ==
    \A t \in Threads :
        Returned(t) => (focused_window_id = None \/ focus_valid_at_set)

\* C1 (amended): after every call, a Focus Pointer that was last written by
\* WindowsChanged holds an id that was a key of the window map when it was set.
C1_IngestedFocusValid ==
    \A t \in Threads :
        (Returned(t) /\ focused_window_id # None /\ focus_set_by = "IngestFocus")
            => focus_valid_at_set

C1_Witness ==
    /\ Returned(1)
    /\ cur[1].tag = "WindowsChanged"
    /\ focus_set_by = "IngestFocus"
    /\ focused_window_id = Some(2)
    /\ pre.focused_window_id = Some(1)
    /\ 2 \notin DOMAIN pre.windows_by_id

\* C2: while WindowClosed(id) is applied for the window the Focus Pointer refers
\* to, no state exists in which id is gone from the window map and the Focus
\* Pointer still holds id.
C2_CloseIsAtomic ==
    \A t \in Threads :
        (/\ rpc[t] = "handling"
         /\ cur[t].tag = "WindowClosed"
         /\ pre.focused_window_id = cur[t].id
         /\ cur[t].id[1] \in DOMAIN pre.windows_by_id)
            => ~(/\ cur[t].id[1] \notin DOMAIN windows_by_id
                 /\ focused_window_id = cur[t].id)

BatchIds(arr) ==
    {ParseWindow(arr[i])[1].id : i \in {j \in 1..Len(arr) : ParseWindow(arr[j]) # None}}

\* C4: after WindowsChanged the cache holds exactly the windows of the array.
C4_WindowsReplaced ==
    \A t \in Threads :
        (Returned(t) /\ cur[t].tag = "WindowsChanged" /\ cur[t].windows # None)
            => DOMAIN windows_by_id = BatchIds(cur[t].windows[1])

\* the lines whose handler reaches notify_ui
Notifies(ev) ==
    \/ ev.tag = "WindowsChanged" /\ ev.windows # None
    \/ ev.tag = "WindowOpenedOrChanged" /\ ev.window # None
         /\ ev.window[1].id # None /\ ev.window[1].title # None
    \/ ev.tag = "WindowClosed" /\ ev.id # None
    \/ ev.tag \in {"WindowLayoutsChanged", "WindowFocusChanged",
                   "WorkspaceActiveWindowChanged"}
    \/ ev.tag = "WorkspacesChanged" /\ ev.workspaces # None
         /\ \E i \in 1..Len(ev.workspaces[1]) :
                UnwrapOr(ev.workspaces[1][i].is_focused, FALSE)

C6_AtMostOnePending ==
    \A l \in ListenerIds : pending[l] <= 1

\* C7: once the wake-up of a call has been sent, the bus is in the complete state
\* the line leads to: window map, Focus Pointer and the rest.
C7_SignalAfterMutate ==
    \A t \in Threads :
        (InCall(t) /\ (notified \/ \E l \in ListenerIds : sent[l] > 0))
            => Bus = ApplyEvent(cur[t], pre)

C7_Witness ==
    /\ Returned(1)
    /\ cur[1] = EvWindowClosed(Some(1))
    /\ notified
    /\ sent[1] = 1
    /\ pending[1] >= 1
    /\ pre.focused_window_id = Some(1)
    /\ focused_window_id = None
    /\ 1 \in DOMAIN pre.windows_by_id
    /\ 1 \notin DOMAIN windows_by_id

\* the window map holds every ingested entry of the array, as its last occurrence
BatchIngested(arr, map) ==
    \A i \in 1..Len(arr) :
        ParseWindow(arr[i]) # None =>
            LET id   == ParseWindow(arr[i])[1].id
                last == CHOOSE j \in 1..Len(arr) :
                            /\ ParseWindow(arr[j]) # None
                            /\ ParseWindow(arr[j])[1].id = id
                            /\ \A k \in (j + 1)..Len(arr) :
                                   ParseWindow(arr[k]) = None
                                   \/ ParseWindow(arr[k])[1].id # id
            IN  id \in DOMAIN map /\ map[id] = ParseWindow(arr[last])[1]

Count(x, s) == Cardinality({i \in 1..Len(s) : s[i] = x})

\* list holds the entries of parsed, each as often, in ascending idx order
SortedListOf(list, parsed) ==
    /\ Len(list) = Len(parsed)
    /\ \A i \in 1..Len(list) : Count(list[i], list) = Count(list[i], parsed)
    /\ \A i \in 1..Len(list) : \A j \in i..Len(list) : list[i].idx <= list[j].idx

\* list is before with the focus flag on exactly the workspaces whose id is ws_id
FlagsSwitched(list, before, ws_id) ==
    /\ Len(list) = Len(before)
    /\ \A i \in 1..Len(list) :
          list[i] = [before[i] EXCEPT !.is_focused = (before[i].id = ws_id)]

\* C8: at every point of a call the window map holds none or all of a
\* WindowsChanged batch, and the workspace list is the list before or the list
\* after a WorkspacesChanged or WorkspaceActivated line.
C8_NoHalfUpdate ==
    \A t \in Threads :
        InCall(t) =>
            /\ (cur[t].tag = "WindowsChanged" /\ cur[t].windows # None)
                  => \/ windows_by_id = pre.windows_by_id
                     \/ BatchIngested(cur[t].windows[1], windows_by_id)
            /\ (cur[t].tag = "WorkspaceActivated" /\ cur[t].id # None)
                  => \/ workspaces = pre.workspaces
                     \/ FlagsSwitched(workspaces, pre.workspaces, cur[t].id[1])
            /\ (cur[t].tag = "WorkspacesChanged" /\ cur[t].workspaces # None)
                  => \/ workspaces = pre.workspaces
                     \/ SortedListOf(workspaces, ParseWorkspaces(cur[t].workspaces[1]))

C8_Witness ==
    /\ Returned(1)
    /\ cur[1].tag = "WorkspaceActivated"
    /\ Len(workspaces) = 2
    /\ workspaces[1].is_focused # pre.workspaces[1].is_focused
    /\ workspaces[2].is_focused # pre.workspaces[2].is_focused
    /\ DOMAIN windows_by_id = {1, 2}

\* C9: at most one stream-reader thread is connected and feeding the bus.
C9_SingleWriter ==
    Cardinality({t \in Threads : rpc[t] \in {"running", "handling", "returned"}}) <= 1

\* C10: when the call for a line returns, the bus is the result of applying all
\* lines that arrived up to and including that line, one after the other in
\* arrival order, whatever has arrived behind it.
C10_ArrivalOrder ==
    \A t \in Threads :
        Returned(t) => Bus = expect

C10_Witness ==
    /\ Returned(1)
    /\ Len(sock[1]) = 2
    /\ Bus # pre
    /\ oracle # Bus
    /\ cur[1] = EvWindowClosed(Some(1))
    /\ sock[1][1].ev = EvWindowOpened(Some(WinObj(Some(1), Some("a"), Some(FALSE))))

\* the positions of the array entries whose is_focused is true
FlaggedEntries(arr) == {i \in 1..Len(arr) : UnwrapOr(arr[i].is_focused, FALSE)}

\* C11: after WindowsChanged, if some entry of the array has its focus flag true
\* the Focus Pointer is the id of such an entry; if no entry has it the Focus
\* Pointer is the one before the event.
C11_FocusFromArray ==
    \A t \in Threads :
        (Returned(t) /\ cur[t].tag = "WindowsChanged" /\ cur[t].windows # None)
            => LET arr == cur[t].windows[1]
               IN  IF FlaggedEntries(arr) # {}
                   THEN \E i \in FlaggedEntries(arr) : focused_window_id = arr[i].id
                   ELSE focused_window_id = pre.focused_window_id

\* the indices of list are in ascending order
AscendingIdx(list) ==
    \A i \in 1..Len(list) : \A j \in (i + 1)..Len(list) : list[i].idx <= list[j].idx

\* the payload objects that are workspaces: an integer id and an integer idx
IsWorkspace(o) == o.id # None /\ o.idx # None

\* the record a workspace object of the payload stands for
WorkspaceOf(o) ==
    [id |-> o.id[1], idx |-> o.idx[1], name |-> o.name,
     is_focused |-> (o.is_focused = Some(TRUE))]

\* C12: after WorkspacesChanged with workspaces [w0..wn] in any order,
\* workspaces_snapshot holds exactly those workspaces, each as often as the
\* payload has it, in ascending idx order, and nothing of the previous list.
C12_SnapshotSortedByIdx ==
    \A t \in Threads :
        (Returned(t) /\ cur[t].tag = "WorkspacesChanged" /\ cur[t].workspaces # None)
            => LET arr == cur[t].workspaces[1]
                   ws  == {i \in 1..Len(arr) : IsWorkspace(arr[i])}
                   snap == workspaces_snapshot
               IN  /\ Len(snap) = Cardinality(ws)
                   /\ \A i \in ws :
                         Cardinality({k \in 1..Len(snap) : snap[k] = WorkspaceOf(arr[i])})
                           = Cardinality({j \in ws : WorkspaceOf(arr[j]) = WorkspaceOf(arr[i])})
                   /\ AscendingIdx(snap)

C12_Witness ==
    /\ Returned(1)
    /\ cur[1].tag = "WorkspacesChanged"
    /\ cur[1].workspaces # None
    /\ Len(cur[1].workspaces[1]) = 2
    /\ cur[1].workspaces[1][1].idx = Some(2)
    /\ cur[1].workspaces[1][2].idx = Some(1)
    /\ Len(pre.workspaces) = 1
    /\ pre.workspaces[1].is_focused
    /\ Len(workspaces_snapshot) = 2
    /\ workspaces_snapshot[1].idx = 1
    /\ workspaces_snapshot[2].idx = 2
    /\ ~workspaces_snapshot[1].is_focused
    /\ ~workspaces_snapshot[2].is_focused

\* C13: in every state, whatever lines and resets came before and whatever call
\* is under way, the stored workspace list is in ascending idx order.
C13_AlwaysSortedByIdx == AscendingIdx(workspaces)

C13_Witness ==
    /\ rpc[2] = "resetting"
    /\ ip[2] = 3
    /\ focus_set_by = "ClearFocus"
    /\ Len(workspaces) = 2
    /\ workspaces[1].idx < workspaces[2].idx
    /\ rpc[1] = "handling"
    /\ cur[1].tag = "WorkspaceActivated"

\* C14: after WorkspaceActivated{id}, exactly one workspace of the snapshot has
\* its focus flag true, the one with the given id, every other workspace has it
\* false, and the window map and the Focus Pointer are as before the event.
C14_ExactlyOneFocused ==
    \A t \in Threads :
        (Returned(t) /\ cur[t].tag = "WorkspaceActivated" /\ cur[t].id # None)
            => LET snap == workspaces_snapshot
               IN  /\ Cardinality({k \in 1..Len(snap) : snap[k].is_focused}) = 1
                   /\ \A k \in 1..Len(snap) : snap[k].is_focused <=> (snap[k].id = cur[t].id[1])
                   /\ windows_by_id = pre.windows_by_id
                   /\ focused_window_id = pre.focused_window_id

\* the largest member of a non-empty set of positions
Last(S) == CHOOSE i \in S : \A j \in S : j <= i

\* C15: after WorkspacesChanged, if the payload marks a workspace focused the
\* Focus Pointer is that workspace's active_window_id, none when it is null (of
\* the last such workspace when several are marked); if it marks none the Focus
\* Pointer is the one before the event.
C15_SeedFromFocusedWorkspace ==
    \A t \in Threads :
        (Returned(t) /\ cur[t].tag = "WorkspacesChanged" /\ cur[t].workspaces # None)
            => LET arr == cur[t].workspaces[1]
               IN  IF FlaggedEntries(arr) # {}
                   THEN focused_window_id = arr[Last(FlaggedEntries(arr))].active_window_id
                   ELSE focused_window_id = pre.focused_window_id

C15_Witness ==
    /\ Returned(1)
    /\ cur[1] = EvWorkspacesChanged(Some(<<WsObj(Some(2), Some(2), Some(TRUE), Some(2)),
                                           WsObj(Some(1), Some(1), Some(TRUE), None)>>))
    /\ pre.focused_window_id = Some(1)
    /\ focused_window_id = None
    /\ focus_set_by = "SeedFocus"

\* the Focus Pointer is x; of the windows cached before, the one with id x has
\* its focus flag true, the one the pointer referred to before (when it is not
\* x) has it false, and nothing else of any window record differs
FocusMovedTo(x) ==
    /\ focused_window_id = x
    /\ DOMAIN windows_by_id = DOMAIN pre.windows_by_id
    /\ \A w \in DOMAIN windows_by_id :
          windows_by_id[w] =
             [pre.windows_by_id[w] EXCEPT !.is_focused =
                 IF Some(w) = x THEN TRUE
                 ELSE IF Some(w) = pre.focused_window_id THEN FALSE
                 ELSE @]

\* C16: after WindowFocusChanged{id} the Focus Pointer is the given id (none for
\* null); the window the pointer referred to before has its focus flag false,
\* the window with the new id, if cached, has it true (also when it is the
\* window focused before), and no other window record changes.
C16_FocusChangedPost ==
    \A t \in Threads :
        (Returned(t) /\ cur[t].tag = "WindowFocusChanged") => FocusMovedTo(cur[t].id)

C16_Witness ==
    /\ Returned(1)
    /\ cur[1] = EvFocusChanged(Some(2))
    /\ pre.focused_window_id = Some(1)
    /\ DOMAIN pre.windows_by_id = {1, 2}
    /\ pre.windows_by_id[1].is_focused
    /\ ~pre.windows_by_id[2].is_focused
    /\ focused_window_id = Some(2)
    /\ ~windows_by_id[1].is_focused
    /\ windows_by_id[2].is_focused

\* C17: from any state, WorkspaceActiveWindowChanged{workspace_id,
\* active_window_id = x} leaves the Focus Pointer and the window records that
\* WindowFocusChanged{id = x} leaves, for every workspace_id and every x.
C17_ActiveWindowAsFocusChanged ==
    \A t \in Threads :
        (Returned(t) /\ cur[t].tag = "WorkspaceActiveWindowChanged")
            => LET same == ApplyEvent(EvFocusChanged(cur[t].active_window_id), pre)
               IN  /\ focused_window_id = same.focused_window_id
                   /\ windows_by_id = same.windows_by_id
                   /\ FocusMovedTo(cur[t].active_window_id)

C17_Witness ==
    /\ Returned(1)
    /\ cur[1] = EvActiveWindow(Some(2), Some(1))
    /\ pre.focused_window_id = Some(2)
    /\ DOMAIN pre.windows_by_id = {1, 2}
    /\ pre.windows_by_id[2].is_focused
    /\ ~pre.windows_by_id[1].is_focused
    /\ focused_window_id = Some(1)
    /\ windows_by_id[1].is_focused
    /\ ~windows_by_id[2].is_focused

\* the record a window object with an id and a title stands for
WindowOf(o) ==
    [id           |-> o.id[1],
     title        |-> o.title[1],
     app_id       |-> IF o.app_id = None THEN "" ELSE o.app_id[1],
     workspace_id |-> IF o.workspace_id = None THEN 0 ELSE o.workspace_id[1],
     is_focused   |-> (o.is_focused = Some(TRUE)),
     is_floating  |-> (o.is_floating = Some(TRUE)),
     layout       |-> ParseLayout(o.layout)]

\* C18: WindowOpenedOrChanged inserts or overwrites the one window record with
\* the payload's id and nothing else: the Focus Pointer, every other window
\* record, the workspace list, the keyboard layouts and the overview flag are as
\* before the event, and the record of a payload with an id and a title holds
\* the payload's values.
C18_UpsertFrame ==
    \A t \in Threads :
        (Returned(t) /\ cur[t].tag = "WindowOpenedOrChanged" /\ cur[t].window # None)
            => LET o == cur[t].window[1]
                   ids == IF o.id = None THEN {} ELSE {o.id[1]}
               IN  /\ focused_window_id = pre.focused_window_id
                   /\ workspaces = pre.workspaces
                   /\ keyboard_layout_names = pre.keyboard_layout_names
                   /\ current_keyboard_layout_index = pre.current_keyboard_layout_index
                   /\ overview_is_open = pre.overview_is_open
                   /\ (DOMAIN pre.windows_by_id) \ ids = (DOMAIN windows_by_id) \ ids
                   /\ \A w \in (DOMAIN pre.windows_by_id) \ ids :
                         windows_by_id[w] = pre.windows_by_id[w]
                   /\ (o.id # None /\ o.title # None)
                         => /\ o.id[1] \in DOMAIN windows_by_id
                            /\ windows_by_id[o.id[1]] = WindowOf(o)

C18_Witness ==
    /\ Returned(1)
    /\ cur[1] = EvWindowOpened(Some(WinObj(Some(1), Some("b"), Some(FALSE))))
    /\ DOMAIN pre.windows_by_id = {1, 2}
    /\ pre.windows_by_id[1].title = "a"
    /\ pre.windows_by_id[1].is_focused
    /\ windows_by_id[1].title = "b"
    /\ ~windows_by_id[1].is_focused
    /\ windows_by_id[2] = pre.windows_by_id[2]
    /\ focused_window_id = Some(1)
    /\ workspaces # <<>>
    /\ keyboard_layout_names # <<>>
    /\ overview_is_open

\* a layout entry that has all four pair fields
CompleteLayout(lo) ==
    /\ lo # None
    /\ \A f \in LayoutFields : lo[1][f] # None

\* the positions of the complete entries of the batch for window w
CompleteFor(changes, w) ==
    {i \in 1..Len(changes) : changes[i].id = Some(w) /\ CompleteLayout(changes[i].layout)}

\* the layout a complete entry stands for
LayoutOf(lo) == Some([f \in LayoutFields |-> lo[1][f][1]])

\* C19: after a WindowLayoutsChanged batch, an entry that lacks any of the four
\* pair fields has had no effect: a window with no complete entry in the batch
\* has exactly the layout it had before (not partly overwritten, not cleared),
\* and a window with complete entries has the layout of the last of them.
C19_IncompleteLayoutSkipped ==
    \A t \in Threads :
        (Returned(t) /\ cur[t].tag = "WindowLayoutsChanged" /\ cur[t].changes # None)
            => LET changes == cur[t].changes[1]
               IN  \A w \in DOMAIN pre.windows_by_id :
                      /\ w \in DOMAIN windows_by_id
                      /\ windows_by_id[w].layout =
                            IF CompleteFor(changes, w) = {}
                            THEN pre.windows_by_id[w].layout
                            ELSE LayoutOf(changes[Last(CompleteFor(changes, w))].layout)

C19_Witness ==
    /\ Returned(1)
    /\ cur[1] = EvLayoutsChanged(Some(<<LayoutChange(Some(1), Some(LayoutObjWithout(2, "tile_size"))),
                                        LayoutChange(Some(2), Some(LayoutObj(2)))>>))
    /\ DOMAIN pre.windows_by_id = {1, 2}
    /\ pre.windows_by_id[1].layout = LayoutOf(Some(LayoutObj(1)))
    /\ pre.windows_by_id[2].layout = LayoutOf(Some(LayoutObj(1)))
    /\ windows_by_id[1].layout = LayoutOf(Some(LayoutObj(1)))
    /\ windows_by_id[2].layout = LayoutOf(Some(LayoutObj(2)))

\* C20: WindowLayoutsChanged changes nothing but the layout field of windows
\* that are cached: the set of cached ids is as before (an entry for an unknown
\* id creates no window), every other field of every record, the Focus Pointer
\* and the rest of the bus are as before, and the call returns.
C20_LayoutOnlyFrame ==
    \A t \in Threads :
        (Returned(t) /\ cur[t].tag = "WindowLayoutsChanged")
            => /\ DOMAIN windows_by_id = DOMAIN pre.windows_by_id
               /\ \A w \in DOMAIN windows_by_id :
                     windows_by_id[w] =
                        [pre.windows_by_id[w] EXCEPT !.layout = windows_by_id[w].layout]
               /\ focused_window_id = pre.focused_window_id
               /\ workspaces = pre.workspaces
               /\ keyboard_layout_names = pre.keyboard_layout_names
               /\ current_keyboard_layout_index = pre.current_keyboard_layout_index
               /\ overview_is_open = pre.overview_is_open

C20_Witness ==
    /\ Returned(1)
    /\ cur[1] = EvLayoutsChanged(Some(<<LayoutChange(Some(3), Some(LayoutObj(2))),
                                        LayoutChange(Some(1), Some(LayoutObj(2)))>>))
    /\ DOMAIN windows_by_id = {1, 2}
    /\ focused_window_id = Some(1)
    /\ windows_by_id[1].is_focused
    /\ pre.windows_by_id[1].layout = None
    /\ windows_by_id[1].layout = LayoutOf(Some(LayoutObj(2)))
    /\ windows_by_id[2] = pre.windows_by_id[2]

\* C21: when the line of a call is the same WorkspaceActivated{id=X} line as the
\* line of the call before it, the call leaves the workspace snapshot, the Focus
\* Pointer and the windows (and the rest of the bus) as the first one left them.
C21_ActivateTwiceAsOnce ==
    \A t \in Threads :
        (Returned(t) /\ cur[t].tag = "WorkspaceActivated" /\ last_activated = cur[t])
            => /\ workspaces_snapshot = pre.workspaces
               /\ focused_window_id = pre.focused_window_id
               /\ windows_by_id = pre.windows_by_id
               /\ Bus = pre

C21_Witness ==
    /\ Returned(1)
    /\ cur[1] = EvWorkspaceActivated(Some(2), Some(TRUE))
    /\ last_activated = cur[1]
    /\ Len(workspaces) = 2
    /\ workspaces[1].id = 2
    /\ workspaces[1].is_focused
    /\ ~workspaces[2].is_focused
    /\ DOMAIN windows_by_id = {1, 2}
    /\ focused_window_id = Some(1)

\* C22: a call for a line that is not JSON returns with every field of the bus
\* as it was when the call started and with no wake-up sent, so the lines around
\* it are applied as if it had not been there; the reader then goes on with the
\* stream.
C22_BadLineIgnored ==
    /\ [](\A t \in Threads :
            (Returned(t) /\ cur[t] = EvNotJson)
                => /\ Bus = pre
                   /\ ~notified
                   /\ \A l \in ListenerIds : sent[l] = 0
                   /\ \A e2 \in NotifyEvents : ApplyEvent(e2, Bus) = ApplyEvent(e2, pre))
    /\ [][\A t \in Threads :
            (Returned(t) /\ cur[t] = EvNotJson /\ rpc'[t] # rpc[t])
                => rpc'[t] = "running"]_vars

C22_Witness ==
    /\ Returned(1)
    /\ cur[1] = EvNotJson
    /\ DOMAIN windows_by_id = {1}
    /\ focused_window_id = Some(1)
    /\ update_listeners = 1
    /\ pre_listeners = 1
    /\ pending[1] = 0
    /\ sent[1] = 0

\* C23: a call for a JSON value whose key is none of the ten event names returns
\* with every field of the bus as it was when the call started and with no
\* wake-up sent; the reader then goes on with the stream.
C23_UnknownKeyIgnored ==
    /\ [](\A t \in Threads :
            (Returned(t) /\ cur[t] = EvUnknown)
                => /\ Bus = pre
                   /\ ~notified
                   /\ \A l \in ListenerIds : sent[l] = 0)
    /\ [][\A t \in Threads :
            (Returned(t) /\ cur[t] = EvUnknown /\ rpc'[t] # rpc[t])
                => rpc'[t] = "running"]_vars

C23_Witness ==
    /\ Returned(1)
    /\ cur[1] = EvUnknown
    /\ Len(workspaces) = 1
    /\ keyboard_layout_names # <<>>
    /\ overview_is_open
    /\ update_listeners = 1
    /\ pre_listeners = 1
    /\ sent[1] = 0

\* how far a reader thread has come: not started, connecting, in the read loop,
\* ended
Progress(s) ==
    CASE s = "notstarted" -> 0
      [] s = "connecting" -> 1
      [] s \in {"running", "handling", "returned"} -> 2
      [] s = "stopped" -> 3
      [] OTHER -> 0

\* C24: a reader thread never moves back: it reaches the read loop only from a
\* successful connect, a thread that has ended (connect failure, read error, end
\* of stream) stays ended and starts no call, and the bus changes only in a step
\* of a thread that is inside a call.
C24_ReaderMovesForward ==
    [][/\ \A t \in Threads :
            /\ Progress(rpc'[t]) >= Progress(rpc[t])
            /\ (rpc'[t] = "running" /\ rpc[t] # "running")
                    => rpc[t] \in {"connecting", "returned"}
            /\ rpc[t] = "stopped"
                    => rpc'[t] = "stopped" /\ cur'[t] = cur[t] /\ ip'[t] = ip[t]
       /\ Bus' # Bus => \E t \in Threads : rpc[t] = "handling"]_vars

C24_Witness ==
    /\ rpc[1] = "stopped"
    /\ rpc[2] = "handling"
    /\ DOMAIN windows_by_id = {1}
    /\ focused_window_id = Some(1)

\* C25: the step in which a reader thread ends (connect failure, read error, end
\* of stream) changes no field of the bus, no channel and no value a query
\* accessor returns; with the reader ended the bus holds the result of the lines
\* applied so far, in order.
C25_TransportErrorKeepsState ==
    /\ [](rpc[1] = "stopped"
            => /\ Bus = oracle
               /\ Accessors(Bus) = Accessors(oracle))
    /\ [][\A t \in Threads :
            (rpc'[t] = "stopped" /\ rpc[t] # "stopped")
                => /\ Bus' = Bus
                   /\ Accessors(Bus') = Accessors(Bus)
                   /\ pending' = pending
                   /\ update_listeners' = update_listeners]_vars

C25_Witness ==
    /\ rpc[1] = "stopped"
    /\ DOMAIN windows_by_id = {1}
    /\ focused_window_id = Some(1)
    /\ current_title(Bus) = "a"
    /\ Len(workspaces) = 1
    /\ keyboard_layout_names # <<>>
    /\ overview_is_open

\* C26: when a call that signals returns and the send to a listener registered
\* before the call has failed because its Receiver was dropped, the mutation of
\* the line is complete and every listener registered before the call whose
\* Receiver exists has been sent exactly one wake-up.
C26_DeadListenerTolerated ==
    \A t \in Threads :
        (/\ Returned(t)
         /\ Notifies(cur[t])
         /\ \E d \in 1..pre_listeners : sent[d] = 0)
            => /\ Bus = ApplyEvent(cur[t], pre)
               /\ notified
               /\ \A l \in 1..pre_listeners : alive[l] => sent[l] = 1

C26_Witness ==
    /\ Returned(1)
    /\ cur[1] = EvWindowOpened(Some(WinObj(Some(1), Some("a"), Some(FALSE))))
    /\ DOMAIN pre.windows_by_id = {}
    /\ DOMAIN windows_by_id = {1}
    /\ pre_listeners = 2
    /\ ~alive[1]
    /\ sent[1] = 0
    /\ alive[2]
    /\ sent[2] = 1
    /\ pending[2] = 1

\* the position the directional query is to designate, counted from 0, when the
\* focused workspace is at position p of a list of n workspaces
Neighbour(p, n, forward, wrap) ==
    IF forward
    THEN IF p + 1 <= n - 1 THEN Some(p + 1) ELSE IF wrap THEN Some(0) ELSE None
    ELSE IF p > 0 THEN Some(p - 1) ELSE IF wrap THEN Some(n - 1) ELSE None

\* the workspaces of the list whose flag is set, as positions counted from 0
FocusedPositions(list) == {i - 1 : i \in {j \in 1..Len(list) : list[j].is_focused}}

\* C27: with the one focused workspace at position p of the idx-ordered list,
\* next_prev_workspace_id and next_prev_workspace_idx return the id and the idx of
\* the workspace at p+1 (forward) or p-1 (backward), at a boundary those of the
\* first (forward) or last (backward) workspace with wrap and none without; in
\* every state the two return none together or the id and the idx of one
\* workspace of the list.
C27_DirectionalNeighbour ==
    \A forward \in BOOLEAN, wrap \in BOOLEAN :
        LET list == workspaces_snapshot
            rid  == next_prev_workspace_id(list, forward, wrap)
            ridx == next_prev_workspace_idx(list, forward, wrap)
        IN  /\ (rid = None) <=> (ridx = None)
            /\ rid # None =>
                  \E q \in 1..Len(list) : list[q].id = rid[1] /\ list[q].idx = ridx[1]
            /\ \A p \in FocusedPositions(list) :
                  FocusedPositions(list) = {p} =>
                      LET q == Neighbour(p, Len(list), forward, wrap)
                      IN  IF q = None THEN rid = None /\ ridx = None
                          ELSE /\ rid = Some(At(list, q[1]).id)
                               /\ ridx = Some(At(list, q[1]).idx)

C27_Witness ==
    /\ Len(workspaces) = 2
    /\ workspaces[1].id # workspaces[2].id
    /\ workspaces[1].idx < workspaces[2].idx
    /\ FocusedPositions(workspaces) = {1}
    /\ next_prev_workspace_idx(workspaces, TRUE, FALSE) = None
    /\ next_prev_workspace_idx(workspaces, TRUE, TRUE) = Some(workspaces[1].idx)
    /\ next_prev_workspace_id(workspaces, FALSE, FALSE) = Some(workspaces[1].id)

\* the title of the last entry of a batch that is ingested under the given id
RECURSIVE LastTitleOf(_, _)
LastTitleOf(arr, id) ==
    IF arr = <<>> THEN ""
    ELSE LET w == ParseWindow(arr[Len(arr)])
         IN  IF w # None /\ w[1].id = id THEN w[1].title
             ELSE LastTitleOf(SubSeq(arr, 1, Len(arr) - 1), id)

\* C28: current_title is the title of the cached window whose id is the Focus
\* Pointer, and "" when the pointer is none or names no cached window; when the
\* call for a WindowsChanged line has returned and the batch holds the window
\* that it flags focused, or the window the pointer named before the call (as
\* seeded by WorkspacesChanged) and no other flagged one, current_title is the
\* title that window has in the batch.
C28_CurrentTitle ==
    /\ \A id \in DOMAIN windows_by_id :
          focused_window_id = Some(id) => current_title(Bus) = windows_by_id[id].title
    /\ (focused_window_id = None \/ focused_window_id[1] \notin DOMAIN windows_by_id)
          => current_title(Bus) = ""
    /\ \A t \in Threads :
          (Returned(t) /\ cur[t].tag = "WindowsChanged" /\ cur[t].windows # None) =>
              LET arr     == cur[t].windows[1]
                  flagged == IngestFocused(arr)
                  ids     == {ParseWindow(arr[i])[1].id :
                                i \in {j \in 1..Len(arr) : ParseWindow(arr[j]) # None}}
              IN  /\ flagged # None
                        => current_title(Bus) = LastTitleOf(arr, flagged[1])
                  /\ (flagged = None /\ pre.focused_window_id # None
                      /\ pre.focused_window_id[1] \in ids)
                        => current_title(Bus) = LastTitleOf(arr, pre.focused_window_id[1])

C28_Witness ==
    /\ Returned(1)
    /\ cur[1] = EvWindowsChanged(Some(<<WinObj(Some(1), Some("Hello World"), Some(TRUE))>>))
    /\ Len(pre.workspaces) = 1
    /\ pre.workspaces[1].is_focused
    /\ pre.focused_window_id = Some(1)
    /\ DOMAIN pre.windows_by_id = {}
    /\ current_title(pre) = ""
    /\ current_title(Bus) = "Hello World"

\* the (names, index) pairs one KeyboardLayoutsChanged line of the alphabet
\* leaves, and the pair of the initial state
KeyboardPairs ==
    {keyboard_layouts_snapshot(InitBus)}
    \cup {keyboard_layouts_snapshot(ApplyEvent(e, InitBus)) :
            e \in {x \in NotifyEvents : x.tag = "KeyboardLayoutsChanged"}}

\* C29: whenever keyboard_layouts_snapshot runs, also while a
\* KeyboardLayoutsChanged line is being applied, the pair it returns is the pair
\* of one KeyboardLayoutsChanged line or the initial empty pair.
C29_KeyboardPairFromOneEvent == keyboard_layouts_snapshot(Bus) \in KeyboardPairs

\* C30: a step that sends a command changes no field of the bus, no value a
\* query accessor returns, no channel and no wake-up count; the bus changes only
\* in a step of a handle_json_line call.
C30_CommandsLeaveStore ==
    [][/\ requests' # requests
            => /\ Bus' = Bus
               /\ Accessors(Bus') = Accessors(Bus)
               /\ pending' = pending
               /\ sent' = sent
               /\ notified' = notified
               /\ update_listeners' = update_listeners
       /\ Bus' # Bus
            => /\ requests' = requests
               /\ \E t \in Threads : rpc[t] = "handling"]_vars

C30_Witness ==
    /\ Len(requests) = 1
    /\ requests[1].line = FocusWorkspacePayload(2)
    /\ requests[1].written
    /\ Returned(1)
    /\ cur[1] = EvWorkspaceActivated(Some(2), Some(TRUE))
    /\ Len(pre.workspaces) = 2
    /\ pre.workspaces[1].is_focused
    /\ workspaces[2].is_focused
    /\ update_listeners = 1
    /\ pending[1] = 0

\* C31: every command send that reported success to its caller has written the
\* bytes of its line to a connection to the compositor socket.
C31_SuccessMeansWritten ==
    \A i \in 1..Len(requests) :
        requests[i].reported = "Ok" => requests[i].connected /\ requests[i].written

\* the window objects of a line that ingests windows
PayloadObjs(ev) ==
    IF ev.tag = "WindowsChanged" /\ ev.windows # None THEN ev.windows[1]
    ELSE IF ev.tag = "WindowOpenedOrChanged" /\ ev.window # None THEN <<ev.window[1]>>
    ELSE <<>>

\* the positions of the objects of a line that are ingested last under their id
LastIngested(arr) ==
    {i \in 1..Len(arr) :
        /\ arr[i].id # None /\ arr[i].title # None
        /\ \A j \in (i + 1)..Len(arr) :
              ~(arr[j].id = arr[i].id /\ arr[j].title # None)}

\* C32: after WindowsChanged or WindowOpenedOrChanged, a window ingested from the
\* line has a layout exactly when its layout object has all four pair fields, and
\* then the stored layout holds the four pairs of the object; in every state the
\* layout of a cached window is absent or has all four fields.
C32_LayoutAllOrNothing ==
    /\ \A w \in DOMAIN windows_by_id :
          windows_by_id[w].layout # None
              => DOMAIN windows_by_id[w].layout[1] = LayoutFields
    /\ \A t \in Threads :
          Returned(t) =>
              LET arr == PayloadObjs(cur[t])
              IN  \A i \in LastIngested(arr) :
                      LET id == arr[i].id[1]
                      IN  /\ id \in DOMAIN windows_by_id
                          /\ windows_by_id[id].layout =
                                IF CompleteLayout(arr[i].layout)
                                THEN LayoutOf(arr[i].layout) ELSE None

C32_Witness ==
    /\ Returned(1)
    /\ cur[1].tag = "WindowsChanged"
    /\ cur[1].windows # None
    /\ Len(cur[1].windows[1]) = 2
    /\ cur[1].windows[1][1] = [WinObj(Some(1), Some("a"), Some(TRUE)) EXCEPT
                                  !.layout = Some(LayoutObjWithout(1, "tile_size"))]
    /\ cur[1].windows[1][2].id = Some(2)
    /\ 1 \in DOMAIN pre.windows_by_id
    /\ pre.windows_by_id[1].layout # None
    /\ windows_by_id[1].layout = None
    /\ 2 \in DOMAIN windows_by_id

\* the positions of the objects of a line that come last among those with their id
LastOfId(arr) ==
    {i \in 1..Len(arr) :
        /\ arr[i].id # None
        /\ \A j \in (i + 1)..Len(arr) : arr[j].id # arr[i].id}

\* C33: after WindowsChanged or WindowOpenedOrChanged, every window object of the
\* line that has an id is cached, with "" for a missing title or app_id, 0 for a
\* missing workspace_id and false for a missing is_focused or is_floating.
C33_DefaultsForMissingFields ==
    \A t \in Threads :
        Returned(t) =>
            LET arr == PayloadObjs(cur[t])
            IN  \A i \in LastOfId(arr) :
                    LET id == arr[i].id[1]
                    IN  /\ id \in DOMAIN windows_by_id
                        /\ windows_by_id[id].title = UnwrapOr(arr[i].title, "")
                        /\ windows_by_id[id].app_id = UnwrapOr(arr[i].app_id, "")
                        /\ windows_by_id[id].workspace_id = UnwrapOr(arr[i].workspace_id, 0)
                        /\ windows_by_id[id].is_focused = UnwrapOr(arr[i].is_focused, FALSE)
                        /\ windows_by_id[id].is_floating = UnwrapOr(arr[i].is_floating, FALSE)

\* C34: the result a windows_for_workspace(w) call returned is, for as long as
\* the caller keeps it and whatever is applied afterwards, the set of the records
\* that were cached with workspace_id w when the call was made, and empty when
\* there was none.
C34_WindowsOfWorkspace ==
    held # None =>
        LET w    == held[1].workspace_id
            from == held[1].from
            ids  == {id \in DOMAIN from : from[id].workspace_id = w}
        IN  /\ \A id \in ids : from[id] \in held[1].windows
            /\ \A r \in held[1].windows : r.id \in ids /\ r = from[r.id]
            /\ (ids = {}) <=> (held[1].windows = {})

C34_Witness ==
    /\ held # None
    /\ held[1].workspace_id = 1
    /\ Cardinality(held[1].windows) = 1
    /\ DOMAIN held[1].from = {1, 2}
    /\ \E r \in held[1].windows : r.id = 1
    /\ DOMAIN windows_by_id = {2}
    /\ windows_by_id[2].workspace_id = 1
    /\ windows_for_workspace(Bus, 1) # held[1].windows

\* caller c is in a call and can take its next step
CanStep(c) ==
    /\ todo[c] # <<>>
    /\ \/ got[c] = Len(todo[c][1])
       \/ \A d \in Callers : todo[c][1][got[c] + 1] \notin HeldBy(d)

C36_AtMostOneFocused ==
    LET snap == workspaces_snapshot
        F    == FocusedPositions(snap)
    IN  /\ Cardinality(F) <= 1
        /\ F = {} => /\ focused_workspace_index(snap) = None
                     /\ focused_workspace_id(snap) = None
        /\ \A p \in F : /\ focused_workspace_index(snap) = Some(p)
                        /\ focused_workspace_id(snap) = Some(At(snap, p).id)

C36_Witness ==
    /\ Returned(1)
    /\ cur[1].tag = "WorkspaceActivated"
    /\ Len(workspaces) = 2
    /\ focused_workspace_id(pre.workspaces) = Some(2)
    /\ focused_workspace_index(pre.workspaces) = Some(0)
    /\ focused_workspace_id(workspaces) = Some(1)
    /\ focused_workspace_index(workspaces) = Some(1)

\* C38: a WorkspaceActivated line with an id leaves, at its return, the flag set
\* on exactly the cached workspaces with that id, whatever its focused field
\* says: the state is the one the same line with focused=true gives, no flag is
\* set when no cached workspace has the id, and nothing else has changed.
C38_ActivationIgnoresFocusedField ==
    (Returned(1) /\ cur[1].tag = "WorkspaceActivated" /\ cur[1].id # None)
        => /\ Len(workspaces) = Len(pre.workspaces)
           /\ \A k \in 1..Len(workspaces) :
                /\ workspaces[k].id = pre.workspaces[k].id
                /\ workspaces[k].idx = pre.workspaces[k].idx
                /\ workspaces[k].name = pre.workspaces[k].name
                /\ workspaces[k].is_focused <=> (pre.workspaces[k].id = cur[1].id[1])
           /\ (\A k \in 1..Len(pre.workspaces) : pre.workspaces[k].id # cur[1].id[1])
                => FocusedPositions(workspaces) = {}
           /\ Bus = ApplyEvent([cur[1] EXCEPT !.focused = Some(TRUE)], pre)
           /\ windows_by_id = pre.windows_by_id
           /\ focused_window_id = pre.focused_window_id

C38_Witness ==
    /\ Returned(1)
    /\ cur[1] = EvWorkspaceActivated(Some(2), Some(FALSE))
    /\ Len(workspaces) = 2
    /\ focused_workspace_id(pre.workspaces) = Some(1)
    /\ focused_workspace_id(workspaces) = Some(2)

\* the list with the flag of its first workspace set
FirstFocused(list) == [list EXCEPT ![1].is_focused = TRUE]

\* C37: with a non-empty list and no workspace focused, next_prev_workspace_id
\* and next_prev_workspace_idx answer as if the first workspace of the list were
\* focused: forward gives the second workspace when there is one, backward gives
\* the last with wrap and none without; with an empty list both give none for
\* every direction and wrap setting.
C37_UnfocusedStartsAtFirst ==
    LET list == workspaces_snapshot
    IN  /\ (list # <<>> /\ FocusedPositions(list) = {})
            => /\ \A forward \in BOOLEAN, wrap \in BOOLEAN :
                    /\ next_prev_workspace_id(list, forward, wrap)
                         = next_prev_workspace_id(FirstFocused(list), forward, wrap)
                    /\ next_prev_workspace_idx(list, forward, wrap)
                         = next_prev_workspace_idx(FirstFocused(list), forward, wrap)
               /\ \A wrap \in BOOLEAN :
                    Len(list) >= 2
                        => /\ next_prev_workspace_id(list, TRUE, wrap) = Some(At(list, 1).id)
                           /\ next_prev_workspace_idx(list, TRUE, wrap) = Some(At(list, 1).idx)
               /\ next_prev_workspace_id(list, FALSE, TRUE) = Some(At(list, Len(list) - 1).id)
               /\ next_prev_workspace_idx(list, FALSE, TRUE) = Some(At(list, Len(list) - 1).idx)
               /\ next_prev_workspace_id(list, FALSE, FALSE) = None
               /\ next_prev_workspace_idx(list, FALSE, FALSE) = None
        /\ list = <<>>
            => \A forward \in BOOLEAN, wrap \in BOOLEAN :
                    /\ next_prev_workspace_id(list, forward, wrap) = None
                    /\ next_prev_workspace_idx(list, forward, wrap) = None

C37_Witness ==
    /\ Returned(1)
    /\ cur[1].tag = "WorkspaceActivated"
    /\ Len(workspaces) = 2
    /\ FocusedPositions(pre.workspaces) # {}
    /\ FocusedPositions(workspaces) = {}
    /\ next_prev_workspace_idx(workspaces, TRUE, FALSE) = Some(2)
    /\ next_prev_workspace_id(workspaces, FALSE, TRUE) = Some(1)

\* C39: WindowOpenedOrChanged for an id that is already cached leaves, at its
\* return, the record made of the payload's fields alone: it has no layout when
\* the payload has no layout object, whatever layout was cached, its focus flag
\* is the payload's is_focused, and the Focus Pointer is as before the line.
C39_UpsertReplacesRecord ==
    (/\ Returned(1)
     /\ cur[1].tag = "WindowOpenedOrChanged"
     /\ cur[1].window # None
     /\ cur[1].window[1].id # None
     /\ cur[1].window[1].title # None
     /\ cur[1].window[1].id[1] \in DOMAIN pre.windows_by_id)
        => LET o == cur[1].window[1]
               w == windows_by_id[o.id[1]]
           IN  /\ w = WindowOf(o)
               /\ o.layout = None => w.layout = None
               /\ w.is_focused = (o.is_focused = Some(TRUE))
               /\ focused_window_id = pre.focused_window_id

C39_Witness ==
    /\ Returned(1)
    /\ cur[1] = EvWindowOpened(Some(WinObj(Some(1), Some("a"), Some(FALSE))))
    /\ 1 \in DOMAIN pre.windows_by_id
    /\ pre.windows_by_id[1].layout = LayoutOf(Some(LayoutObj(2)))
    /\ pre.windows_by_id[1].is_focused
    /\ windows_by_id[1].layout = None
    /\ ~windows_by_id[1].is_focused
    /\ focused_window_id = Some(1)

\* the step is a lock region of the reset called by thread 2
ResetMoves == rpc[2] = "resetting" /\ (ip'[2] # ip[2] \/ rpc'[2] # rpc[2])

\* C40: a reset that runs between two lines leaves, at its return, the store as
\* NiriBus::new makes it (no windows, Focus Pointer none, no workspaces, no
\* keyboard layout names or index, overview closed); the lines that follow give
\* the state they give on a new store; and no region of reset changes the list
\* of listeners or sends a wake-up.
C40_ResetToInitial ==
    /\ [][(ResetMoves /\ rpc'[2] = "notstarted") => Bus' = InitBus]_vars
    /\ [][ResetMoves => /\ update_listeners' = update_listeners
                        /\ pending' = pending
                        /\ sent' = sent
                        /\ alive' = alive]_vars
    /\ []((rpc[1] = "running" /\ rpc[2] = "notstarted") => Bus = oracle)

C40_Witness ==
    /\ rpc[1] = "running"
    /\ rpc[2] = "notstarted"
    /\ Bus = InitBus
    /\ oracle = InitBus
    /\ update_listeners = 1
    /\ pending[1] = MaxPending

====
